---- MODULE Spec2Model ----
(***************************************************************************)
(* Model of EdgeBasedGraphFactory (src/extractor/edge_based_graph_factory  *)
(* .cpp): the conversion of a node-based road graph into the edge-expanded *)
(* graph.  Run = RenumberEdges ; GenerateEdgeExpandedNodes ;               *)
(* GenerateEdgeExpandedEdges.  Every loop of the source is stepped one     *)
(* iteration per action; the per-intersection functions are operators.     *)
(***************************************************************************)
EXTENDS Integers, Sequences, FiniteSets, TLC

(***************************************************************************)
(* Bounds of the explored inputs.                                          *)
(***************************************************************************)
\* largest edge distance of the input graphs (distances are 1..MaxDistance)
MaxDistance == 2
\* the flush threshold of the original-edge-data buffer, scaled down from
\* the source's 1024 * 1024 * 10 records so that flushes happen
FlushLimit == 2

(***************************************************************************)
(* Unsigned 32-bit integers, kept at full width as <<high, low>> halves of *)
(* 16 bits each: all arithmetic is modulo 2^32.                            *)
(***************************************************************************)
Half == 2 ^ 16

U32(n) == <<(n \div Half) % Half, n % Half>>

U32Add(a, b) ==
    LET lo == a[2] + b[2]
    IN  <<(a[1] + b[1] + (lo \div Half)) % Half, lo % Half>>

U32Not(a) == <<Half - 1 - a[1], Half - 1 - a[2]>>

U32Sub(a, b) == U32Add(a, U32Add(U32Not(b), U32(1)))

\* conversion of a signed 32-bit int to unsigned (two's complement)
I32ToU32(i) == IF i >= 0 THEN U32(i) ELSE U32Sub(U32(0), U32(-i))

U32Less(a, b) == a[1] < b[1] \/ (a[1] = b[1] /\ a[2] < b[2])

U32Leq(a, b) == a = b \/ U32Less(a, b)

\* the value as a natural number; used only on values below 2^16
U32Small(a) == a[2]

U32Max == <<Half - 1, Half - 1>>

SPECIAL_NODEID == U32Max
SPECIAL_EDGEID == U32Max
INVALID_EDGE_WEIGHT == U32Max

(***************************************************************************)
(* Sequence helpers.                                                       *)
(***************************************************************************)
RECURSIVE Flatten(_)
Flatten(ss) == IF ss = <<>> THEN <<>> ELSE Head(ss) \o Flatten(Tail(ss))

RECURSIVE ReverseSeq(_)
ReverseSeq(s) == IF s = <<>> THEN <<>> ELSE ReverseSeq(Tail(s)) \o <<Head(s)>>

Range(s) == {s[i] : i \in DOMAIN s}

(***************************************************************************)
(* The input node-based graph.  A road is one undirected pair {a, b}; the  *)
(* graph holds two directed edges per road, a -> b and b -> a, each with   *)
(* its own reversed flag, stored per source node (adjacency arrays).       *)
(*   mode "both": both directions routable; "fwd": only a -> b;            *)
(*   "bwd": only b -> a; "closed": neither.                                *)
(* geom lists the node ids compressed away between a and b.                *)
(***************************************************************************)
Nodes == 0 .. 4

Road(a, b, mode, dist, name, cls, ba, bb) ==
    [a |-> a, b |-> b, mode |-> mode, distance |-> dist, name_id |-> name,
     travel_mode |-> 1, roundabout |-> FALSE, startpoint |-> TRUE,
     startpoint_b |-> TRUE,
     road_class |-> cls, bearing_a |-> ba, bearing_b |-> bb, geom |-> <<>>]

\* the two directed edges of road k
Directed(roads, k) ==
    LET r == roads[k]
        common == [distance |-> r.distance, name_id |-> r.name_id,
                   travel_mode |-> r.travel_mode, roundabout |-> r.roundabout,
                   road_class |-> r.road_class,
                   edge_id |-> SPECIAL_EDGEID, road |-> k]
    IN  << common @@ [source |-> r.a, target |-> r.b,
                      startpoint |-> r.startpoint,
                      reversed |-> r.mode \notin {"both", "fwd"},
                      bearing |-> r.bearing_a,
                      bucket |-> [i \in 1 .. Len(r.geom) + 1 |->
                                    [node_id |-> (r.geom \o <<r.b>>)[i],
                                     weight |-> r.distance]]],
           common @@ [source |-> r.b, target |-> r.a,
                      startpoint |-> r.startpoint_b,
                      reversed |-> r.mode \notin {"both", "bwd"},
                      bearing |-> r.bearing_b,
                      bucket |-> [i \in 1 .. Len(r.geom) + 1 |->
                                    [node_id |-> (ReverseSeq(r.geom) \o <<r.a>>)[i],
                                     weight |-> r.distance]]] >>

RECURSIVE EdgesFrom(_, _, _)
EdgesFrom(all, n, i) ==
    IF i > Len(all) THEN <<>>
    ELSE (IF all[i].source = n THEN <<all[i]>> ELSE <<>>) \o EdgesFrom(all, n, i + 1)

\* the adjacency arrays: all directed edges, grouped by source node
BuildGraph(roads) ==
    LET all == Flatten([k \in 1 .. Len(roads) |-> Directed(roads, k)])
    IN  Flatten([n \in 1 .. Cardinality(Nodes) |-> EdgesFrom(all, n - 1, 1)])

(***************************************************************************)
(* State.  The first group is the factory's input, fixed by construction;  *)
(* m_node_based_graph is mutable only in the edge_id field of its edges.   *)
(***************************************************************************)
VARIABLES
    m_node_based_graph,              \* sequence of directed edges (adjacency arrays)
    m_barrier_nodes,                 \* set of nodes
    m_traffic_lights,                \* set of nodes
    m_restriction_map,               \* [only: set of <<from,via,to>>, no: set of <<from,via,to>>]
    speed_profile,                   \* [u_turn_penalty, traffic_signal_penalty, has_turn_penalty_function]
    turn_function,                   \* the profile's turn_function hook
    generate_edge_lookup,            \* Run's boolean argument
    pc,                              \* position in Run
    current_edge,                    \* loop position: index of the edge the running loop is at
    numbered_edges_count,            \* RenumberEdges' counter
    m_max_edge_id,
    m_edge_based_node_weights,
    m_edge_based_node_list,
    m_edge_based_node_is_startpoint,
    m_edge_based_edge_list,
    restricted_turns_counter,
    skipped_uturns_counter,
    skipped_barrier_turns_counter,
    node_based_edge_counter,
    original_edges_counter,
    original_edge_data_vector,       \* the in-memory buffer of OriginalEdgeData
    edge_data_file,                  \* [prefix: the 4 bytes at offset 0, body: records written]
    edge_penalty_file,               \* sequence of u32 fixed penalties
    edge_segment_file,               \* sequence of per-edge segment records
    turn_candidates,                 \* the post-processed candidates of the current via-edge
    turn_cursor,                      \* position of the loop over turn_candidates
    distance                         \* weight of the turn being emitted

inputs == <<m_barrier_nodes, m_traffic_lights, m_restriction_map, speed_profile,
            turn_function, generate_edge_lookup>>

nodes_out == <<m_edge_based_node_list, m_edge_based_node_is_startpoint>>

counters == <<restricted_turns_counter, skipped_uturns_counter,
              skipped_barrier_turns_counter, node_based_edge_counter,
              original_edges_counter>>

streams == <<original_edge_data_vector, edge_data_file, edge_penalty_file,
             edge_segment_file>>

turn_loop == <<turn_candidates, turn_cursor, distance>>

vars == <<m_node_based_graph, inputs, pc, current_edge, numbered_edges_count,
          m_max_edge_id, m_edge_based_node_weights, nodes_out,
          m_edge_based_edge_list, counters, streams, turn_loop>>

(***************************************************************************)
(* Graph access (util::DynamicGraph).                                      *)
(***************************************************************************)
GetNumberOfEdges == Len(m_node_based_graph)

GetEdgeData(e) == m_node_based_graph[e]

GetTarget(e) == m_node_based_graph[e].target

\* the edges out of node n, in storage order
GetAdjacentEdgeRange(n) ==
    SelectSeq([i \in 1 .. GetNumberOfEdges |-> i],
              LAMBDA e : m_node_based_graph[e].source = n)

GetOutDegree(n) == Len(GetAdjacentEdgeRange(n))

GetDirectedOutDegree(n) ==
    Len(SelectSeq(GetAdjacentEdgeRange(n), LAMBDA e : ~m_node_based_graph[e].reversed))

\* the first edge from u to v; 0 stands for SPECIAL_EDGEID (no such edge)
FindEdge(u, v) ==
    LET found == SelectSeq(GetAdjacentEdgeRange(u),
                           LAMBDA e : m_node_based_graph[e].target = v)
    IN  IF found = <<>> THEN 0 ELSE found[1]

(***************************************************************************)
(* External collaborators, by the contract the factory consumes.           *)
(***************************************************************************)
\* RestrictionMap::CheckForEmanatingIsOnlyTurn: the only-turn target of
\* (from, via), or SPECIAL_NODEID
CheckForEmanatingIsOnlyTurn(from, via) ==
    LET hits == {t \in m_restriction_map.only : t[1] = from /\ t[2] = via}
    IN  IF hits = {} THEN SPECIAL_NODEID ELSE U32((CHOOSE t \in hits : TRUE)[3])

\* RestrictionMap::CheckIfTurnIsRestricted
CheckIfTurnIsRestricted(from, via, to) == <<from, via, to>> \in m_restriction_map.no

\* CompressedEdgeContainer
GetBucketReference(e) == m_node_based_graph[e].bucket

GetPositionForID(e) == e

\* the other directed edge of the same road: the edge seen from its far end
OppositeEdge(e) ==
    CHOOSE f \in 1 .. GetNumberOfEdges :
        f # e /\ m_node_based_graph[f].road = m_node_based_graph[e].road

\* coordinate_calculation::computeAngle on the representative coordinates of
\* the via-edge (seen from the turn node) and of the onto-edge: the bearing
\* from the turn node back along the via-edge minus the bearing along the
\* onto-edge, normalised to [0, 360); whole degrees
computeAngle(via, onto) ==
    (m_node_based_graph[OppositeEdge(via)].bearing
        - m_node_based_graph[onto].bearing + 360) % 360

\* the profile's turn_function applied to arg: its value in tenths, or
\* raised when the call throws luabind::error
CallTurnFunction(arg) ==
    [raised |-> turn_function.fails = "always"
                \/ (turn_function.fails = "left" /\ arg < 0),
     value |-> turn_function.base
               + turn_function.slope * (IF arg < 0 THEN -arg ELSE arg)]

(***************************************************************************)
(* Turn classification tables (engine/guidance).                           *)
(***************************************************************************)
Instruction(type, modifier) == [type |-> type, direction_modifier |-> modifier]

NO_TURN == Instruction("NoTurn", "UTurn")

getTurnDirection(angle) ==
    IF angle > 0 /\ angle < 60 THEN "SharpRight"
    ELSE IF angle >= 60 /\ angle < 140 THEN "Right"
    ELSE IF angle >= 140 /\ angle < 170 THEN "SlightRight"
    ELSE IF angle >= 170 /\ angle <= 190 THEN "Straight"
    ELSE IF angle > 190 /\ angle <= 220 THEN "SlightLeft"
    ELSE IF angle > 220 /\ angle <= 300 THEN "Left"
    ELSE IF angle > 300 /\ angle < 360 THEN "SharpLeft"
    ELSE "UTurn"

angularDeviation(a, b) ==
    LET d == IF a > b THEN a - b ELSE b - a
    IN  IF d > 180 THEN 360 - d ELSE d

isBasic(type) == type \in {"Turn", "EndOfRoad"}

isUturn(instruction) ==
    isBasic(instruction.type) /\ instruction.direction_modifier = "UTurn"

entersRoundabout(instruction) ==
    instruction.type \in {"EnterRoundabout", "EnterRotary",
                          "EnterRoundaboutAtExit", "EnterRotaryAtExit"}

isOnRoundabout(instruction) ==
    instruction.type \in {"EnterRoundabout", "EnterRotary", "EnterRoundaboutAtExit",
                          "EnterRotaryAtExit", "ExitRoundabout", "RemainRoundabout"}

isRampClass(road_class) == road_class \in {"motorway_link", "trunk_link"}

isLowPriorityRoadClass(road_class) == road_class \in {"service", "low_priority"}

\* turn angle a direction modifier stands for
angleOfModifier(modifier) ==
    CASE modifier = "UTurn" -> 0
      [] modifier = "SharpRight" -> 45
      [] modifier = "Right" -> 90
      [] modifier = "SlightRight" -> 135
      [] modifier = "Straight" -> 180
      [] modifier = "SlightLeft" -> 225
      [] modifier = "Left" -> 270
      [] modifier = "SharpLeft" -> 315

\* largest deviation a modifier is still chosen at
maxDeviation(modifier) ==
    CASE modifier = "UTurn" -> 1
      [] modifier \in {"SharpRight", "SharpLeft"} -> 45
      [] modifier \in {"Right", "Left"} -> 50
      [] modifier \in {"SlightRight", "SlightLeft"} -> 30
      [] modifier = "Straight" -> 20

\* the unit of confidence values: confidence 1.0 is ConfidenceOne * 5
ConfidenceOne == 810000 \* divisible by the square of every maxDeviation

\* getTurnConfidence: 1 - (difference / max_deviation)^2, as an exact multiple
\* of 1 / (5 * ConfidenceOne); 1.0 for U-turns and non-basic instructions
getTurnConfidence(angle, instruction) ==
    IF ~isBasic(instruction.type) \/ instruction.direction_modifier = "UTurn"
    THEN 5 * ConfidenceOne
    ELSE LET difference == angularDeviation(angle,
                               angleOfModifier(instruction.direction_modifier))
             max == maxDeviation(instruction.direction_modifier)
         IN  5 * (ConfidenceOne
                  - difference * difference * (ConfidenceOne \div (max * max)))

(***************************************************************************)
(* AnalyzeTurn: the initial instruction of the turn                        *)
(*   node_u -- edge1 --> node_v -- edge2 --> node_w.                       *)
(***************************************************************************)
AnalyzeTurn(node_u, edge1, node_v, edge2, node_w, angle) ==
    LET data1 == GetEdgeData(edge1)
        data2 == GetEdgeData(edge2)
        from_ramp == isRampClass(data1.road_class)
        to_ramp == isRampClass(data2.road_class)
    IN  IF node_u = node_w THEN Instruction("Turn", "UTurn")
        ELSE IF data1.roundabout /\ data2.roundabout
        THEN IF GetDirectedOutDegree(node_v) = 1
             THEN NO_TURN
             ELSE Instruction("RemainRoundabout", getTurnDirection(angle))
        ELSE IF ~data1.roundabout /\ data2.roundabout
        THEN Instruction("EnterRoundabout", getTurnDirection(angle))
        ELSE IF data1.roundabout /\ ~data2.roundabout
        THEN Instruction("ExitRoundabout", getTurnDirection(angle))
        ELSE IF ~from_ramp /\ to_ramp
        THEN Instruction("Ramp", getTurnDirection(angle))
        ELSE Instruction("Turn", getTurnDirection(angle))

(***************************************************************************)
(* getTurnCandidates.                                                      *)
(***************************************************************************)
\* the count the U-turn rule makes at turn_node: the adjacent edges whose
\* reverse edge (as FindEdge finds it) is not reversed
NumberOfEmittingBidirectionalEdges(turn_node) ==
    Len(SelectSeq(GetAdjacentEdgeRange(turn_node),
                  LAMBDA edge : ~GetEdgeData(FindEdge(GetTarget(edge), turn_node)).reversed))

\* the only-turn rule with its comparison inverted
HitsOnlyTurn(turn_is_valid, only_restriction_to_node, to_node) ==
    /\ turn_is_valid
    /\ only_restriction_to_node # SPECIAL_NODEID
    /\ U32(to_node) = only_restriction_to_node

\* the only-turn rule applied to turns that are invalid already as well
MissesOnlyTurnValidOrNot(turn_is_valid, only_restriction_to_node, to_node) ==
    /\ only_restriction_to_node # SPECIAL_NODEID
    /\ U32(to_node) # only_restriction_to_node

\* the only-turn rule: a still valid turn that misses the only-turn target
MissesOnlyTurn(turn_is_valid, only_restriction_to_node, to_node) ==
    /\ turn_is_valid
    /\ only_restriction_to_node # SPECIAL_NODEID
    /\ U32(to_node) # only_restriction_to_node

\* the barrier rule skipping the U-turn in place of the other turns
SkippedUturnAtBarrier(turn_is_valid, is_barrier_node, from_node, to_node) ==
    turn_is_valid /\ is_barrier_node /\ from_node = to_node

\* the barrier rule: at a barrier node everything but the U-turn is skipped
SkippedAtBarrier(turn_is_valid, is_barrier_node, from_node, to_node) ==
    turn_is_valid /\ is_barrier_node /\ from_node # to_node

\* the U-turn rule with both of its thresholds off by one
SkippedUturnFromOne(turn_is_valid, is_barrier_node, from_node, turn_node, to_node) ==
    /\ turn_is_valid
    /\ ~is_barrier_node
    /\ from_node = to_node
    /\ GetOutDegree(turn_node) >= 1
    /\ NumberOfEmittingBidirectionalEdges(turn_node) >= 1

\* the U-turn rule, at nodes that are no barrier
SkippedUturn(turn_is_valid, is_barrier_node, from_node, turn_node, to_node) ==
    /\ turn_is_valid
    /\ ~is_barrier_node
    /\ from_node = to_node
    /\ GetOutDegree(turn_node) > 1
    /\ NumberOfEmittingBidirectionalEdges(turn_node) > 1

\* the generic restriction query without its guard
IsRestrictedWhateverOnlyTurn(from_node, turn_node, to_node, only_restriction_to_node) ==
    CheckIfTurnIsRestricted(from_node, turn_node, to_node)

\* the generic restriction query and its guard
IsRestrictedTurn(from_node, turn_node, to_node, only_restriction_to_node) ==
    /\ CheckIfTurnIsRestricted(from_node, turn_node, to_node)
    /\ only_restriction_to_node = SPECIAL_NODEID
    /\ U32(to_node) # only_restriction_to_node

\* one iteration of the loop over the edges out of the turn node: the
\* candidate pushed and the counters incremented
CandidateFor(from_node, via_eid, onto_edge) ==
    LET turn_node == GetTarget(via_eid)
        only_restriction_to_node == CheckForEmanatingIsOnlyTurn(from_node, turn_node)
        is_barrier_node == turn_node \in m_barrier_nodes
        to_node == GetTarget(onto_edge)
        valid0 == ~GetEdgeData(onto_edge).reversed
        only_hit == MissesOnlyTurn(valid0, only_restriction_to_node, to_node)
        valid1 == valid0 /\ ~only_hit
        barrier_hit == SkippedAtBarrier(valid1, is_barrier_node, from_node, to_node)
        uturn_hit == SkippedUturn(valid1, is_barrier_node, from_node, turn_node, to_node)
        valid2 == valid1 /\ ~barrier_hit /\ ~uturn_hit
        restricted_hit == IsRestrictedTurn(from_node, turn_node, to_node,
                                           only_restriction_to_node)
        turn_is_valid == valid2 /\ ~restricted_hit
        angle == computeAngle(via_eid, onto_edge)
        turn == AnalyzeTurn(from_node, via_eid, turn_node, onto_edge, to_node, angle)
        confidence == getTurnConfidence(angle, turn)
    IN  [candidate |-> [eid |-> onto_edge, valid |-> turn_is_valid, angle |-> angle,
                        instruction |-> turn,
                        confidence |-> IF turn_is_valid THEN confidence
                                       ELSE (confidence \div 5) * 4],
         restricted |-> (IF only_hit THEN 1 ELSE 0) + (IF restricted_hit THEN 1 ELSE 0),
         skipped_uturns |-> IF uturn_hit THEN 1 ELSE 0,
         skipped_barrier |-> IF barrier_hit THEN 1 ELSE 0]

\* the reclassification without its test for a roundabout entry
ReclassifyEveryCandidate(candidate) ==
    [candidate EXCEPT !.instruction.type = "EnterRoundaboutAtExit"]

\* the reclassification of roundabout entries at intersections that also
\* have a way past the roundabout
ReclassifyRoundaboutEntry(candidate) ==
    IF ~entersRoundabout(candidate.instruction) THEN candidate
    ELSE IF candidate.instruction.type = "EnterRotary"
    THEN [candidate EXCEPT !.instruction.type = "EnterRotaryAtExit"]
    ELSE IF candidate.instruction.type = "EnterRoundabout"
    THEN [candidate EXCEPT !.instruction.type = "EnterRoundaboutAtExit"]
    ELSE candidate

\* std::sort with ByAngle; on these short vectors an insertion sort, which
\* keeps candidates of equal angle in their order
RECURSIVE InsertByAngle(_, _)
InsertByAngle(sorted, c) ==
    IF sorted = <<>> THEN <<c>>
    ELSE LET last == sorted[Len(sorted)]
         IN  IF c.angle < last.angle
             THEN InsertByAngle(SubSeq(sorted, 1, Len(sorted) - 1), c) \o <<last>>
             ELSE sorted \o <<c>>

RECURSIVE SortByAngle(_)
SortByAngle(cs) ==
    IF cs = <<>> THEN <<>>
    ELSE InsertByAngle(SortByAngle(SubSeq(cs, 1, Len(cs) - 1)), cs[Len(cs)])

\* cyclic neighbours (indices from 1)
getLeft(cs, index) == (index % Len(cs)) + 1

getRight(cs, index) == ((index + Len(cs) - 2) % Len(cs)) + 1

NARROW_TURN_ANGLE == 35

\* isInvalidEquivalent without its test that this_turn is invalid
isNearValidTurn(cs, this_turn, valid_turn) ==
    IF ~cs[valid_turn].valid THEN FALSE
    ELSE angularDeviation(cs[this_turn].angle, cs[valid_turn].angle) < NARROW_TURN_ANGLE

isInvalidEquivalent(cs, this_turn, valid_turn) ==
    IF ~cs[valid_turn].valid \/ cs[this_turn].valid THEN FALSE
    ELSE angularDeviation(cs[this_turn].angle, cs[valid_turn].angle) < NARROW_TURN_ANGLE

RemoveAt(cs, index) == SubSeq(cs, 1, index - 1) \o SubSeq(cs, index + 1, Len(cs))

\* the erase loop: one pass, index kept in place after an erase
RECURSIVE EraseInvalidEquivalents(_, _)
EraseInvalidEquivalents(cs, index) ==
    IF index > Len(cs) THEN cs
    ELSE IF isInvalidEquivalent(cs, index, getRight(cs, index))
            \/ isInvalidEquivalent(cs, index, getLeft(cs, index))
    THEN EraseInvalidEquivalents(RemoveAt(cs, index), index)
    ELSE EraseInvalidEquivalents(cs, index + 1)

\* getTurnCandidates(from_node, via_eid); uninitialized is the value the
\* uninitialized local has_roundabout_entry happens to hold
getTurnCandidates(from_node, via_eid, uninitialized) ==
    LET turn_node == GetTarget(via_eid)
        onto == GetAdjacentEdgeRange(turn_node)
        pushed == [i \in 1 .. Len(onto) |-> CandidateFor(from_node, via_eid, onto[i])]
        raw == [i \in 1 .. Len(onto) |-> pushed[i].candidate]
        has_non_roundabout ==
            \E i \in 1 .. Len(raw) : raw[i].valid /\ ~entersRoundabout(raw[i].instruction)
        has_roundabout_entry ==
            IF \E i \in 1 .. Len(raw) : raw[i].valid /\ entersRoundabout(raw[i].instruction)
            THEN TRUE ELSE uninitialized
        marked == IF has_non_roundabout /\ has_roundabout_entry
                  THEN [i \in 1 .. Len(raw) |-> ReclassifyRoundaboutEntry(raw[i])]
                  ELSE raw
        Sum(field) == LET RECURSIVE S(_)
                          S(i) == IF i = 0 THEN 0 ELSE pushed[i][field] + S(i - 1)
                      IN  S(Len(pushed))
    IN  [candidates |-> EraseInvalidEquivalents(SortByAngle(marked), 1),
         restricted |-> Sum("restricted"),
         skipped_uturns |-> Sum("skipped_uturns"),
         skipped_barrier |-> Sum("skipped_barrier")]

(***************************************************************************)
(* The turn post-processor.                                                *)
(***************************************************************************)
STRAIGHT_ANGLE == 180

isSlightModifier(modifier) == modifier \in {"Straight", "SlightRight", "SlightLeft"}

isSlightTurn(instruction) ==
    /\ isBasic(instruction.type) \/ instruction.type = "NoTurn"
    /\ isSlightModifier(instruction.direction_modifier)

isSharpTurn(instruction) ==
    isBasic(instruction.type) /\ instruction.direction_modifier \in {"SharpLeft", "SharpRight"}

isStraight(instruction) ==
    /\ isBasic(instruction.type) \/ instruction.type = "NoTurn"
    /\ instruction.direction_modifier = "Straight"

isConflict(first, second) ==
    \/ first.type = second.type /\ first.direction_modifier = second.direction_modifier
    \/ isStraight(first) /\ isStraight(second)

canBeSuppressed(type) == type = "Turn"

\* the modifiers from right to left
ModifierOrder ==
    <<"SharpRight", "Right", "SlightRight", "Straight", "SlightLeft", "Left", "SharpLeft">>

ModifierPosition(modifier) == CHOOSE i \in DOMAIN ModifierOrder : ModifierOrder[i] = modifier

shiftTurnToLeft(modifier) ==
    IF modifier \in {"UTurn", "SharpLeft"} THEN modifier
    ELSE ModifierOrder[ModifierPosition(modifier) + 1]

shiftTurnToRight(modifier) ==
    IF modifier \in {"UTurn", "SharpRight"} THEN modifier
    ELSE ModifierOrder[ModifierPosition(modifier) - 1]

mirrorDirectionModifier(modifier) ==
    IF modifier = "UTurn" THEN modifier
    ELSE ModifierOrder[8 - ModifierPosition(modifier)]

SetModifier(cs, i, modifier) == [cs EXCEPT ![i].instruction.direction_modifier = modifier]

SetType(cs, i, type) == [cs EXCEPT ![i].instruction.type = type]

\* resolve(cs[self].instruction, cs[neighbor].instruction, resolve_right):
\* the shift of one modifier away from a conflict, when the place is free
resolve(cs, self, neighbor, resolve_right) ==
    LET modifier == cs[self].instruction.direction_modifier
        shifted == IF resolve_right THEN shiftTurnToRight(modifier)
                   ELSE shiftTurnToLeft(modifier)
    IN  IF shifted = cs[neighbor].instruction.direction_modifier \/ shifted = modifier
        THEN [ok |-> FALSE, cs |-> cs]
        ELSE [ok |-> TRUE, cs |-> SetModifier(cs, self, shifted)]

\* resolveTransitive: the neighbour makes room first, then the turn follows
resolveTransitive(cs, first, second, third, resolve_right) ==
    LET moved == resolve(cs, second, third, resolve_right)
        modifier == cs[first].instruction.direction_modifier
    IN  IF moved.ok
        THEN [ok |-> TRUE,
              cs |-> SetModifier(moved.cs, first,
                                 IF resolve_right THEN shiftTurnToRight(modifier)
                                 ELSE shiftTurnToLeft(modifier))]
        ELSE [ok |-> FALSE, cs |-> cs]

RESOLVE_TO_RIGHT == TRUE
RESOLVE_TO_LEFT == FALSE

(***************************************************************************)
(* optimizeRamps.                                                          *)
(***************************************************************************)
\* index of the first candidate that is no U-turn and continues on the
\* incoming name; 0 when there is none (continue_eid stays SPECIAL_EDGEID)
ContinueCandidate(via_edge, cs) ==
    LET same == {i \in 1 .. Len(cs) :
                    /\ cs[i].instruction.direction_modifier # "UTurn"
                    /\ GetEdgeData(cs[i].eid).name_id = GetEdgeData(via_edge).name_id}
    IN  IF same = {} THEN 0 ELSE CHOOSE i \in same : \A j \in same : i <= j

optimizeRamps(via_edge, cs) ==
    LET in_edge_data == GetEdgeData(via_edge)
        k == ContinueCandidate(via_edge, cs)
        suppressed ==
            IF k # 0 /\ angularDeviation(cs[k].angle, STRAIGHT_ANGLE) < NARROW_TURN_ANGLE
                     /\ isRampClass(in_edge_data.road_class)
            THEN [cs EXCEPT ![k].instruction = Instruction("Suppressed", "Straight")]
            ELSE cs
    IN  IF k = 0 THEN cs
        ELSE [i \in 1 .. Len(cs) |->
                 IF i # k /\ suppressed[i].instruction.type = "Ramp"
                    /\ isSlightModifier(suppressed[i].instruction.direction_modifier)
                 THEN [suppressed[i] EXCEPT !.instruction.direction_modifier =
                          IF i < k THEN "SlightRight" ELSE "SlightLeft"]
                 ELSE suppressed[i]]

(***************************************************************************)
(* checkForkAndEnd, handleForkAndEnd.                                      *)
(***************************************************************************)
checkForkAndEnd(via_eid, cs) ==
    IF Len(cs) # 3 \/ cs[1].instruction.direction_modifier # "UTurn" THEN "Invalid"
    ELSE IF isOnRoundabout(cs[2].instruction) THEN "Invalid"
    ELSE LET road_classes == <<GetEdgeData(via_eid).road_class,
                               GetEdgeData(cs[2].eid).road_class,
                               GetEdgeData(cs[3].eid).road_class>>
         IN  IF angularDeviation(cs[2].angle, STRAIGHT_ANGLE) < NARROW_TURN_ANGLE
                /\ angularDeviation(cs[3].angle, STRAIGHT_ANGLE) < NARROW_TURN_ANGLE
             THEN IF road_classes[1] # road_classes[2] \/ road_classes[2] # road_classes[3]
                  THEN "Invalid"
                  ELSE IF cs[2].valid /\ cs[3].valid THEN "Fork" ELSE "Invalid"
             ELSE IF angularDeviation(cs[2].angle, 90) < NARROW_TURN_ANGLE
                     /\ angularDeviation(cs[3].angle, 270) < NARROW_TURN_ANGLE
             THEN "EndOfRoad"
             ELSE "Invalid"

\* handleForkAndEnd putting the left branch before the right one
handleForkAndEndReordered(type, cs) ==
    << cs[1],
       [cs[3] EXCEPT !.instruction =
           Instruction(type, IF type = "Fork" THEN "SlightLeft" ELSE "Left")],
       [cs[2] EXCEPT !.instruction =
           Instruction(type, IF type = "Fork" THEN "SlightRight" ELSE "Right")] >>

\* handleForkAndEnd with the two sides exchanged
handleForkAndEndMirrored(type, cs) ==
    LET right == IF type = "Fork" THEN "SlightRight" ELSE "Right"
        left == IF type = "Fork" THEN "SlightLeft" ELSE "Left"
    IN  [cs EXCEPT ![2].instruction = Instruction(type, left),
                   ![3].instruction = Instruction(type, right)]

\* handleForkAndEnd that labels every case as it labels a fork
handleEndAsFork(type, cs) ==
    [cs EXCEPT ![2].instruction = Instruction(type, "SlightRight"),
               ![3].instruction = Instruction(type, "SlightLeft")]

handleForkAndEnd(type, cs) ==
    [cs EXCEPT ![2].instruction =
                   Instruction(type, IF type = "Fork" THEN "SlightRight" ELSE "Right"),
               ![3].instruction =
                   Instruction(type, IF type = "Fork" THEN "SlightLeft" ELSE "Left")]

(***************************************************************************)
(* optimizeCandidates: fork and end-of-road, ramps, conflict resolution.   *)
(***************************************************************************)
\* several U-turns at one intersection: the ones next to the first are
\* turned into sharp turns
RelabelUturns(cs) ==
    IF isUturn(cs[1].instruction) /\ cs[1].angle = 0
    THEN LET a == IF isUturn(cs[getLeft(cs, 1)].instruction)
                  THEN SetModifier(cs, getLeft(cs, 1), "SharpLeft") ELSE cs
         IN  IF isUturn(a[getRight(a, 1)].instruction)
             THEN SetModifier(a, getRight(a, 1), "SharpRight") ELSE a
    ELSE cs

keepStraight(angle) == (IF angle > 180 THEN angle - 180 ELSE 180 - angle) < 5

\* the end of the conflicting region that begins at turn_index: the region
\* grows to the left while the next candidate conflicts with the first
RECURSIVE ConflictRegion(_, _, _, _)
ConflictRegion(cs, turn_index, conflict_end, conflict_size) ==
    IF isConflict(cs[getLeft(cs, conflict_end)].instruction, cs[turn_index].instruction)
       /\ conflict_size < Len(cs)
    THEN ConflictRegion(cs, turn_index, getLeft(cs, conflict_end), conflict_size + 1)
    ELSE [conflict_end |-> conflict_end, conflict_size |-> conflict_size]

\* a conflict of two candidates, conflict_begin (the turn) and conflict_end
ResolveConflictOfTwo(cs, conflict_begin, conflict_end) ==
    LET left_of_end == getLeft(cs, conflict_end)
        right_of_begin == getRight(cs, conflict_begin)
        straight_case ==
            /\ cs[conflict_begin].instruction.direction_modifier = "Straight"
            /\ cs[left_of_end].instruction.direction_modifier # "SlightLeft"
            /\ cs[right_of_begin].instruction.direction_modifier # "SlightRight"
        keep_end == keepStraight(cs[conflict_end].angle)
        keep_begin == keepStraight(cs[conflict_begin].angle)
        s1 == IF straight_case /\ ~keep_end
              THEN resolve(cs, conflict_end, left_of_end, RESOLVE_TO_LEFT)
              ELSE [ok |-> TRUE, cs |-> cs]
        s2 == IF straight_case /\ ~keep_begin
              THEN resolve(s1.cs, conflict_begin, right_of_begin, RESOLVE_TO_RIGHT)
              ELSE [ok |-> TRUE, cs |-> s1.cs]
        resolved_count == (IF s1.ok THEN 1 ELSE 0) + (IF s2.ok THEN 1 ELSE 0)
        state == IF straight_case THEN s2.cs ELSE cs
        done_straight ==
            straight_case /\ resolved_count >= 1 /\ (~keep_begin \/ ~keep_end)
        begin_first == state[conflict_begin].confidence < state[conflict_end].confidence
        first_try == IF begin_first
                     THEN resolve(state, conflict_begin, right_of_begin, RESOLVE_TO_RIGHT)
                     ELSE resolve(state, conflict_end, left_of_end, RESOLVE_TO_LEFT)
        second_try == IF begin_first
                      THEN resolve(state, conflict_end, left_of_end, RESOLVE_TO_LEFT)
                      ELSE resolve(state, conflict_begin, right_of_begin, RESOLVE_TO_RIGHT)
        turn == state[conflict_begin].instruction
        resolve_right == turn.direction_modifier \in {"SlightRight", "SharpLeft"}
        transitive ==
            IF resolve_right
            THEN resolveTransitive(state, conflict_begin, right_of_begin,
                                   getRight(state, right_of_begin), RESOLVE_TO_RIGHT)
            ELSE resolveTransitive(state, conflict_end, left_of_end,
                                   getLeft(state, left_of_end), RESOLVE_TO_LEFT)
    IN  IF done_straight THEN state
        ELSE IF first_try.ok THEN first_try.cs
        ELSE IF second_try.ok THEN second_try.cs
        ELSE IF isSlightTurn(turn) \/ isSharpTurn(turn) THEN transitive.cs
        ELSE state

\* a conflict of three or more: the two outermost candidates are moved
ResolveLargeConflict(cs, conflict_begin, conflict_end) ==
    LET left_of_end == getLeft(cs, conflict_end)
        right_of_begin == getRight(cs, conflict_begin)
        ToRight(c) == resolveTransitive(c, conflict_begin, right_of_begin,
                                        getRight(c, right_of_begin), RESOLVE_TO_RIGHT).cs
        ToLeft(c) == resolveTransitive(c, conflict_end, left_of_end,
                                       getLeft(c, left_of_end), RESOLVE_TO_LEFT).cs
        r1 == resolve(cs, conflict_begin, right_of_begin, RESOLVE_TO_RIGHT)
        a == IF r1.ok THEN r1.cs
             ELSE IF isSlightTurn(cs[conflict_begin].instruction) THEN ToRight(cs)
             ELSE IF isSharpTurn(cs[conflict_begin].instruction) THEN ToLeft(cs)
             ELSE cs
        r2 == resolve(a, conflict_end, left_of_end, RESOLVE_TO_LEFT)
    IN  IF r2.ok THEN r2.cs
        ELSE IF isSlightTurn(a[conflict_begin].instruction) THEN ToLeft(a)
        ELSE IF isSharpTurn(a[conflict_begin].instruction) THEN ToRight(a)
        ELSE a

\* the loop over the candidates, from turn_index on
RECURSIVE ResolveConflicts(_, _)
ResolveConflicts(cs, turn_index) ==
    IF turn_index > Len(cs) THEN cs
    ELSE LET turn == cs[turn_index]
         IN  IF ~isBasic(turn.instruction.type) \/ isUturn(turn.instruction)
                \/ isOnRoundabout(turn.instruction)
             THEN ResolveConflicts(cs, turn_index + 1)
             ELSE IF ~isConflict(turn.instruction, cs[getLeft(cs, turn_index)].instruction)
             THEN ResolveConflicts(cs, turn_index + 1)
             ELSE LET region == ConflictRegion(cs, turn_index, getLeft(cs, turn_index), 2)
                      next == IF region.conflict_end < turn_index THEN Len(cs) + 1
                              ELSE region.conflict_end + 1
                      after == IF region.conflict_size = 2
                               THEN ResolveConflictOfTwo(cs, turn_index, region.conflict_end)
                               ELSE ResolveLargeConflict(cs, turn_index, region.conflict_end)
                  IN  ResolveConflicts(after, next)

optimizeCandidates(via_eid, cs) ==
    IF Len(cs) <= 1 THEN cs
    ELSE LET type == checkForkAndEnd(via_eid, cs)
         IN  IF type # "Invalid" THEN handleForkAndEnd(type, cs)
             ELSE ResolveConflicts(RelabelUturns(optimizeRamps(via_eid, cs)), 1)

(***************************************************************************)
(* isObviousChoice, suppressTurns.                                         *)
(***************************************************************************)
MAXIMAL_ALLOWED_NO_TURN_DEVIATION == 2
FUZZY_STRAIGHT_ANGLE == 15
DISTINCTION_RATIO == 2

hasValidRatio(left, center, right) ==
    LET angle_left == IF left.angle > 180
                      THEN angularDeviation(left.angle, STRAIGHT_ANGLE) ELSE 180
        angle_right == IF right.angle < 180
                       THEN angularDeviation(right.angle, STRAIGHT_ANGLE) ELSE 180
        self_angle == angularDeviation(center.angle, STRAIGHT_ANGLE)
    IN  /\ self_angle < NARROW_TURN_ANGLE
        /\ IF center.angle < STRAIGHT_ANGLE
           THEN angle_right > self_angle /\ angle_left > DISTINCTION_RATIO * self_angle
           ELSE angle_left > self_angle /\ angle_right > DISTINCTION_RATIO * self_angle

isObviousChoice(via_eid, turn_index, cs) ==
    LET candidate == cs[turn_index]
        in_data == GetEdgeData(via_eid)
        out_data == GetEdgeData(candidate.eid)
        candidate_to_the_left == cs[getLeft(cs, turn_index)]
        candidate_to_the_right == cs[getRight(cs, turn_index)]
        is_only_normal_road ==
            \A i \in 1 .. Len(cs) :
                i = turn_index \/ cs[i].angle = 0
                \/ isLowPriorityRoadClass(GetEdgeData(cs[i].eid).road_class)
    IN  \/ ~isLowPriorityRoadClass(out_data.road_class) /\ is_only_normal_road
        \/ Len(cs) = 1
        \/ Len(cs) = 2 /\ isUturn(candidate_to_the_left.instruction)
        \/ angularDeviation(candidate.angle, STRAIGHT_ANGLE)
              < MAXIMAL_ALLOWED_NO_TURN_DEVIATION
        \/ hasValidRatio(candidate_to_the_left, candidate, candidate_to_the_right)
        \/ /\ in_data.name_id # 0
           /\ in_data.name_id = out_data.name_id
           /\ 2 * angularDeviation(candidate.angle, STRAIGHT_ANGLE) < NARROW_TURN_ANGLE

\* the special case of three candidates: a low-priority road beside a
\* normal road that goes nearly straight; k is the normal road
CollapseNearStraight(via_eid, cs, k) ==
    IF GetEdgeData(cs[k].eid).name_id = GetEdgeData(via_eid).name_id
    THEN [cs EXCEPT ![k].instruction = NO_TURN]
    ELSE SetType(cs, k, "NewName")

\* index of the normal road the special case collapses; 0 when it does not apply
SpecialCaseOfThree(cs) ==
    IF Len(cs) # 3 THEN 0
    ELSE LET low2 == isLowPriorityRoadClass(GetEdgeData(cs[2].eid).road_class)
             low3 == isLowPriorityRoadClass(GetEdgeData(cs[3].eid).road_class)
         IN  IF low2 /\ ~low3
             THEN IF angularDeviation(cs[3].angle, STRAIGHT_ANGLE) < NARROW_TURN_ANGLE
                  THEN 3 ELSE 0
             ELSE IF low3 /\ ~low2
             THEN IF angularDeviation(cs[2].angle, STRAIGHT_ANGLE) < NARROW_TURN_ANGLE
                  THEN 2 ELSE 0
             ELSE 0

\* index of the first candidate on the incoming name that is an obvious
\* choice; 0 when there is none (has_obvious_with_same_name is false)
ObviousWithSameName(via_eid, cs) ==
    LET obvious == {i \in 1 .. Len(cs) :
                       /\ GetEdgeData(cs[i].eid).name_id = GetEdgeData(via_eid).name_id
                       /\ isObviousChoice(via_eid, i, cs)}
    IN  IF obvious = {} THEN 0 ELSE CHOOSE i \in obvious : \A j \in obvious : i <= j

\* the test for a turn that continues on the incoming road, without its
\* test for the anonymous name
ContinuesOnNameOrNone(in_data, out_data, modifier, has_obvious_with_same_name) ==
    /\ out_data.name_id = in_data.name_id
    /\ modifier # "UTurn"
    /\ ~has_obvious_with_same_name

\* the test for a turn that continues on the incoming road
ContinuesOnName(in_data, out_data, modifier, has_obvious_with_same_name) ==
    /\ out_data.name_id = in_data.name_id
    /\ in_data.name_id # 0
    /\ modifier # "UTurn"
    /\ ~has_obvious_with_same_name

\* one iteration of the main loop of suppressTurns
SuppressTurn(via_eid, cs, turn_index, has_obvious_with_same_name, obvious_angle) ==
    LET in_data == GetEdgeData(via_eid)
        out_data == GetEdgeData(cs[turn_index].eid)
        c1 == IF ContinuesOnName(in_data, out_data,
                                 cs[turn_index].instruction.direction_modifier,
                                 has_obvious_with_same_name)
              THEN SetType(cs, turn_index, "Continue") ELSE cs
        left == c1[getLeft(c1, turn_index)]
        right == c1[getRight(c1, turn_index)]
        c2 == IF /\ ~isSlightModifier(getTurnDirection(left.angle)) \/ ~left.valid
                 /\ ~isSlightModifier(getTurnDirection(right.angle)) \/ ~right.valid
                 /\ angularDeviation(c1[turn_index].angle, STRAIGHT_ANGLE)
                        < FUZZY_STRAIGHT_ANGLE
              THEN SetModifier(c1, turn_index, "Straight") ELSE c1
        side == IF c2[turn_index].angle < obvious_angle
                THEN "SlightRight" ELSE "SlightLeft"
        c3 == IF in_data.travel_mode # out_data.travel_mode THEN c2
              ELSE IF isObviousChoice(via_eid, turn_index, c2)
              THEN IF in_data.name_id = out_data.name_id
                   THEN SetType(c2, turn_index, "Suppressed")
                   ELSE IF ~has_obvious_with_same_name
                   THEN IF isRampClass(in_data.road_class)
                           /\ ~isRampClass(out_data.road_class)
                        THEN [c2 EXCEPT ![turn_index].instruction =
                                 Instruction("Merge", mirrorDirectionModifier(
                                     c2[turn_index].instruction.direction_modifier))]
                        ELSE IF canBeSuppressed(c2[turn_index].instruction.type)
                        THEN SetType(c2, turn_index, "NewName") ELSE c2
                   ELSE SetModifier(c2, turn_index, side)
              ELSE IF c2[turn_index].instruction.direction_modifier = "Straight"
                      /\ has_obvious_with_same_name
              THEN SetModifier(c2, turn_index, side)
              ELSE c2
    IN  IF ~isBasic(cs[turn_index].instruction.type) THEN cs
        ELSE IF c1[turn_index].valid /\ ~isUturn(c1[turn_index].instruction) THEN c3
        ELSE c1

RECURSIVE SuppressLoop(_, _, _, _, _)
SuppressLoop(via_eid, cs, turn_index, has_obvious, obvious_angle) ==
    IF turn_index > Len(cs) THEN cs
    ELSE SuppressLoop(via_eid,
                      SuppressTurn(via_eid, cs, turn_index, has_obvious, obvious_angle),
                      turn_index + 1, has_obvious, obvious_angle)

suppressTurns(via_eid, cs) ==
    LET special == SpecialCaseOfThree(cs)
        obvious == ObviousWithSameName(via_eid, cs)
    IN  IF special # 0 THEN CollapseNearStraight(via_eid, cs, special)
        ELSE SuppressLoop(via_eid, cs, 1, obvious # 0,
                          IF obvious = 0 THEN 0 ELSE cs[obvious].angle)

(***************************************************************************)
(* GetTurnPenalty: the hook's result cast to int (truncation towards 0),   *)
(* 0 when the profile has no turn function or the call fails.              *)
(***************************************************************************)
\* rounding to the nearest int in place of the cast
RoundToInt(tenths) == (tenths + 5) \div 10

\* static_cast<int> of a double given in tenths: truncation towards zero
CastToInt(tenths) == IF tenths >= 0 THEN tenths \div 10 ELSE -((-tenths) \div 10)

\* GetTurnPenalty without the catch: the value is used although the call failed
PenaltyDespiteFailure(angle) ==
    IF speed_profile.has_turn_penalty_function
    THEN CastToInt(CallTurnFunction(180 - angle).value)
    ELSE 0

GetTurnPenalty(angle) ==
    IF speed_profile.has_turn_penalty_function
    THEN LET penalty == CallTurnFunction(180 - angle)
         IN  IF penalty.raised THEN 0 ELSE CastToInt(penalty.value)
    ELSE 0

\* the weight of the expanded edge of a turn: the core of the loop
TurnWeight(via_eid, turn) ==
    LET edge_data1 == GetEdgeData(via_eid)
        node_v == GetTarget(via_eid)
        d0 == U32(edge_data1.distance)
        d1 == IF node_v \in m_traffic_lights
              THEN U32Add(d0, I32ToU32(speed_profile.traffic_signal_penalty))
              ELSE d0
        turn_penalty == GetTurnPenalty(turn.angle)
        d2 == IF isUturn(turn.instruction)
              THEN U32Add(d1, I32ToU32(speed_profile.u_turn_penalty))
              ELSE d1
    IN  U32Add(d2, I32ToU32(turn_penalty))

\* the record built from the onto-edge of the turn in place of the via-edge
OriginalEdgeDataOfOnto(via_eid, turn) ==
    [via_node |-> GetPositionForID(turn.eid),
     name_id |-> GetEdgeData(turn.eid).name_id,
     turn_instruction |-> turn.instruction,
     travel_mode |-> GetEdgeData(turn.eid).travel_mode]

\* the record of the turn in the original-edge-data stream
OriginalEdgeData(via_eid, turn) ==
    [via_node |-> GetPositionForID(via_eid),
     name_id |-> GetEdgeData(via_eid).name_id,
     turn_instruction |-> turn.instruction,
     travel_mode |-> GetEdgeData(via_eid).travel_mode]

\* the record of the turn in the edge-segment-lookup stream
SegmentLookup(node_u, via_eid) ==
    LET node_based_edges == GetBucketReference(via_eid)
    IN  [node_count |-> Len(node_based_edges) + 1,
         first_node_id |-> node_u,
         segments |-> [i \in 1 .. Len(node_based_edges) |->
                          [to_node_id |-> node_based_edges[i].node_id,
                           segment_weight |-> node_based_edges[i].weight]]]

(***************************************************************************)
(* InsertEdgeBasedNode(node_u, node_v): the expanded nodes of one road,    *)
(* appended to the node list with their start-point flags, and the weight  *)
(* slot invalidated when only the forward direction is routable.           *)
(***************************************************************************)
\* the start-point flag taken from the forward edge alone
ForwardStartpoint(forward_data, reverse_data) == forward_data.startpoint

\* the start-point flag pushed with each expanded node
StartpointFlag(forward_data, reverse_data) ==
    forward_data.startpoint \/ reverse_data.startpoint

InsertEdgeBasedNode(node_u, node_v) ==
    LET edge_id_1 == FindEdge(node_u, node_v)
        forward_data == GetEdgeData(edge_id_1)
        edge_id_2 == FindEdge(node_v, node_u)
        reverse_data == GetEdgeData(edge_id_2)
        forward_geometry == GetBucketReference(edge_id_1)
        geometry_size == Len(forward_geometry)
        weights == IF forward_data.edge_id # SPECIAL_NODEID
                      /\ reverse_data.edge_id = SPECIAL_NODEID
                   THEN [m_edge_based_node_weights
                            EXCEPT ![U32Small(forward_data.edge_id) + 1] = INVALID_EDGE_WEIGHT]
                   ELSE m_edge_based_node_weights
        node(i) == [forward_edge_based_node_id |-> forward_data.edge_id,
                    reverse_edge_based_node_id |-> reverse_data.edge_id,
                    u |-> IF i = 1 THEN node_u ELSE forward_geometry[i - 1].node_id,
                    v |-> forward_geometry[i].node_id,
                    name_id |-> forward_data.name_id,
                    forward_packed_geometry_id |-> GetPositionForID(edge_id_1),
                    reverse_packed_geometry_id |-> GetPositionForID(edge_id_2),
                    fwd_segment_position |-> i - 1,
                    forward_travel_mode |-> forward_data.travel_mode,
                    backward_travel_mode |-> reverse_data.travel_mode]
    IN  IF forward_data.edge_id = SPECIAL_NODEID /\ reverse_data.edge_id = SPECIAL_NODEID
        THEN [weights |-> m_edge_based_node_weights,
              nodes |-> m_edge_based_node_list,
              startpoints |-> m_edge_based_node_is_startpoint]
        ELSE [weights |-> weights,
              nodes |-> m_edge_based_node_list \o [i \in 1 .. geometry_size |-> node(i)],
              startpoints |-> m_edge_based_node_is_startpoint
                  \o [i \in 1 .. geometry_size |->
                         StartpointFlag(forward_data, reverse_data)]]

(***************************************************************************)
(* The inputs explored.                                                    *)
(***************************************************************************)
Input(roads, barrier, lights, only, no, utp, tsp, has_fn, fn, lookup) ==
    [roads |-> SelectSeq(roads, LAMBDA r : r.mode # "absent"),
     barrier |-> barrier, lights |-> lights,
     restrictions |-> [only |-> only, no |-> no],
     profile |-> [u_turn_penalty |-> utp, traffic_signal_penalty |-> tsp,
                  has_turn_penalty_function |-> has_fn],
     fn |-> fn, lookup |-> lookup]

NoTurnFunction == [fails |-> "never", base |-> 0, slope |-> 0]

\* roads of the star around node 1 (leaves 0, 2, 3) and the chord 0 - 2;
\* bearings: at node 1 node 0 lies south, 2 north, 3 east
R01(mode) == Road(0, 1, mode, 1, 1, "primary", 0, 180)
R12(mode) == Road(1, 2, mode, 2, 1, "primary", 0, 180)
R13(mode) == Road(1, 3, mode, 1, 2, "primary", 90, 270)
R02(mode) == Road(0, 2, mode, 1, 3, "primary", 20, 200)

\* junction topologies, direction flags, barriers and restrictions
TopologyInputs ==
    { Input(<<R01(m1), R12(m2), R13(m3), R02(m4)>>, barrier, {}, rs[1], rs[2],
            20, 0, FALSE, NoTurnFunction, FALSE) :
        m1 \in {"both", "fwd", "bwd", "closed"},
        m2 \in {"absent", "both", "fwd", "bwd"},
        m3 \in {"absent", "both", "fwd"},
        m4 \in {"absent", "both"},
        barrier \in {{}, {0, 1}},
        rs \in { <<{}, {}>>, <<{<<0, 1, 2>>}, {}>>, <<{<<0, 1, 0>>}, {}>>,
                 <<{}, {<<0, 1, 2>>}>>, <<{<<0, 1, 2>>}, {<<0, 1, 2>>}>>,
                 <<{}, {<<0, 1, 0>>}>> } }

\* the turn functions explored: values in tenths, so that 75 is 7.5
TurnFunctions ==
    { [fails |-> "never", base |-> b, slope |-> sl] : b \in {-75, 0, 75}, sl \in {0, 1} }
    \cup { [fails |-> "always", base |-> 75, slope |-> 0],
           [fails |-> "left", base |-> 75, slope |-> 1] }

\* penalties, traffic lights and the turn function, on the path 0 - 1 - 2 with
\* the side road 1 - 3
WeightInputs ==
    { Input(<<Road(0, 1, "both", d, 1, "primary", 0, 180), R12("both"), R13("fwd")>>,
            {}, lights, {}, {}, utp, tsp, fn[1], fn[2], lookup) :
        d \in 1 .. MaxDistance,
        lights \in {{}, {0, 1}},
        utp \in {-3, 0, 20},
        tsp \in {-1, 0, 7},
        fn \in {<<FALSE, NoTurnFunction>>} \cup {<<TRUE, f>> : f \in TurnFunctions},
        lookup \in BOOLEAN }

\* a road of the instruction family: the attributes the turn analysis reads
Way(a, b, mode, name, cls, travel_mode, roundabout, ba, bb) ==
    [Road(a, b, mode, 1, name, cls, ba, bb)
        EXCEPT !.travel_mode = travel_mode, !.roundabout = roundabout]

\* the bearings at node 1 of the roads to 2 and to 3: straight on and left,
\* a fork, the end of a road, straight on and right, a lopsided fork, a
\* skewed end of a road
Layouts == {<<0, 270>>, <<10, 350>>, <<90, 270>>, <<0, 90>>, <<30, 340>>, <<70, 290>>}

\* name, class and travel mode of the via road 0 - 1 and of the roads to 2 and 3
Attributes ==
    { <<1, "primary", 1, 1, "primary", 1, 2, "primary", 1>>,
      <<1, "primary", 1, 2, "primary", 1, 3, "service", 1>>,
      <<1, "motorway_link", 1, 1, "primary", 1, 2, "motorway_link", 1>>,
      <<0, "primary", 1, 0, "primary", 1, 0, "primary", 1>>,
      <<1, "primary", 1, 1, "primary", 2, 2, "primary", 1>>,
      <<1, "primary", 1, 2, "motorway_link", 1, 1, "service", 1>>,
      <<1, "motorway_link", 1, 2, "primary", 1, 3, "service", 1>> }

\* which of the roads 0 - 1, 1 - 2, 1 - 3 are flagged roundabout
RoundaboutFlags ==
    { <<FALSE, FALSE, FALSE>>, <<FALSE, TRUE, TRUE>>, <<TRUE, TRUE, FALSE>>,
      <<FALSE, TRUE, FALSE>> }

\* junctions whose candidates the post-processor relabels
InstructionInputs ==
    { Input(<<Way(0, 1, "both", at[1], at[2], at[3], rb[1], 0, 180),
              Way(1, 2, ms[1], at[4], at[5], at[6], rb[2], ly[1], (ly[1] + 180) % 360),
              Way(1, 3, ms[2], at[7], at[8], at[9], rb[3], ly[2], (ly[2] + 180) % 360)>>,
            {}, {}, {}, no, 20, 0, FALSE, NoTurnFunction, FALSE) :
        ly \in Layouts, at \in Attributes, rb \in RoundaboutFlags,
        ms \in {<<"both", "both">>, <<"fwd", "bwd">>, <<"bwd", "fwd">>, <<"fwd", "fwd">>},
        no \in {{}, {<<0, 1, 2>>}} }

\* the graph without any road
EmptyInput == Input(<<>>, {}, {}, {}, {}, 20, 0, FALSE, NoTurnFunction, FALSE)


\* graphs with a road from node 1 to itself, beside the road 0 - 1: nothing
\* in the factory rejects them
LoopInputs ==
    { Input(<<R01(m1), Road(1, 1, m2, d, 2, "primary", 90, 270)>>,
            barrier, {}, {}, {}, 20, 0, FALSE, NoTurnFunction, lookup) :
        m1 \in {"both", "fwd", "bwd"}, m2 \in {"both", "fwd", "bwd"},
        d \in 1 .. MaxDistance, barrier \in {{}, {1}}, lookup \in BOOLEAN }

\* a road with compressed geometry and a start-point flag per direction
Segmented(road, geom, startpoint, startpoint_b) ==
    [road EXCEPT !.geom = geom, !.startpoint = startpoint,
                 !.startpoint_b = startpoint_b]

\* the path 0 - 1 - 2: direction flags, the geometry of the road 0 - 1 (node
\* 3 compressed away or not) and the start-point flags of the directions
GeometryInputs ==
    { Input(<<Segmented(R01(m1), geom, sp[1], sp[2]),
              Segmented(R12(m2), <<>>, sp[2], sp[1])>>,
            {}, {}, {}, {}, 20, 0, FALSE, NoTurnFunction, lookup) :
        m1 \in {"both", "fwd", "bwd"}, m2 \in {"absent", "both", "bwd", "closed"},
        geom \in {<<>>, <<3>>}, sp \in BOOLEAN \X BOOLEAN, lookup \in BOOLEAN }

\* the bearings at node 1 of the roads to 2, 3 and 4: three roads fanned out
\* ahead (narrowly and less narrowly), an ordinary crossing, and two roads
\* close to the road back
Crossings == {<<10, 0, 350>>, <<25, 0, 335>>, <<90, 0, 270>>, <<170, 0, 190>>}

\* crossings of four roads at node 1, with one-way roads and a restriction
CrossingInputs ==
    { Input(<<R01("both"),
              Road(1, 2, ms[1], 1, 2, "primary", cr[1], (cr[1] + 180) % 360),
              Road(1, 3, ms[2], 1, 3, "primary", cr[2], (cr[2] + 180) % 360),
              Road(1, 4, ms[3], 1, 4, "primary", cr[3], (cr[3] + 180) % 360)>>,
            {}, {}, {}, no, 20, 0, FALSE, NoTurnFunction, FALSE) :
        cr \in Crossings, ms \in {"both", "bwd"} \X {"both", "bwd"} \X {"both", "bwd"},
        no \in {{}, {<<0, 1, 3>>}} }

\* name, class and travel mode as in Attributes: the road to 2 keeps the
\* name of the via road and changes the travel mode, beside a service road,
\* off a ramp, and beside a normal road
ModeChanges ==
    { <<1, "primary", 1, 1, "primary", 2, 3, "service", 1>>,
      <<1, "motorway_link", 1, 1, "motorway_link", 2, 2, "primary", 1>>,
      <<1, "primary", 1, 1, "primary", 2, 1, "primary", 1>> }

\* junctions at which the travel mode changes along the same name
ModeChangeInputs ==
    { Input(<<Way(0, 1, "both", at[1], at[2], at[3], FALSE, 0, 180),
              Way(1, 2, "both", at[4], at[5], at[6], FALSE, ly[1], (ly[1] + 180) % 360),
              Way(1, 3, m3, at[7], at[8], at[9], FALSE, ly[2], (ly[2] + 180) % 360)>>,
            {}, {}, {}, {}, 20, 0, FALSE, NoTurnFunction, FALSE) :
        ly \in Layouts, at \in ModeChanges, m3 \in {"both", "bwd"} }

Inputs ==
    TopologyInputs \cup WeightInputs \cup InstructionInputs \cup LoopInputs
        \cup GeometryInputs \cup CrossingInputs \cup ModeChangeInputs
        \cup {EmptyInput}

(***************************************************************************)
(* Init: the factory as constructed.                                       *)
(***************************************************************************)
Init ==
    /\ \E i \in Inputs :
        /\ m_node_based_graph = BuildGraph(i.roads)
        /\ m_barrier_nodes = i.barrier
        /\ m_traffic_lights = i.lights
        /\ m_restriction_map = i.restrictions
        /\ speed_profile = i.profile
        /\ turn_function = i.fn
        /\ generate_edge_lookup = i.lookup
    /\ pc = "RenumberEdges"
    /\ current_edge = 1
    /\ numbered_edges_count = 0
    /\ m_max_edge_id = U32(0)
    /\ m_edge_based_node_weights = <<>>
    /\ m_edge_based_node_list = <<>>
    /\ m_edge_based_node_is_startpoint = <<>>
    /\ m_edge_based_edge_list = <<>>
    /\ restricted_turns_counter = 0
    /\ skipped_uturns_counter = 0
    /\ skipped_barrier_turns_counter = 0
    /\ node_based_edge_counter = 0
    /\ original_edges_counter = 0
    /\ original_edge_data_vector = <<>>
    /\ edge_data_file = [prefix |-> <<>>, body |-> <<>>]
    /\ edge_penalty_file = <<>>
    /\ edge_segment_file = <<>>
    /\ turn_candidates = <<>>
    /\ turn_cursor = 1
    /\ distance = U32(0)

(***************************************************************************)
(* Run, first part: RenumberEdges.                                         *)
(***************************************************************************)
\* one iteration of RenumberEdges' loop over all edges in node order
RenumberEdges ==
    /\ pc = "RenumberEdges"
    /\ current_edge <= GetNumberOfEdges
    /\ LET edge_data == GetEdgeData(current_edge)
       IN  IF edge_data.reversed
           THEN UNCHANGED <<m_node_based_graph, m_edge_based_node_weights,
                            numbered_edges_count>>
           ELSE /\ m_edge_based_node_weights' =
                       Append(m_edge_based_node_weights,
                              U32Add(U32(edge_data.distance),
                                     I32ToU32(speed_profile.u_turn_penalty)))
                /\ m_node_based_graph' =
                       [m_node_based_graph EXCEPT
                           ![current_edge].edge_id = U32(numbered_edges_count)]
                /\ numbered_edges_count' = numbered_edges_count + 1
    /\ current_edge' = current_edge + 1
    /\ UNCHANGED <<inputs, pc, m_max_edge_id, nodes_out, m_edge_based_edge_list,
                   counters, streams, turn_loop>>

\* the count itself taken for the largest id
CountAsMaxEdgeId(count) == U32(count)

\* Run: m_max_edge_id = RenumberEdges() - 1, in unsigned arithmetic
MaxEdgeId(count) == U32Sub(U32(count), U32(1))

\* RenumberEdges returns its counter to Run
SetMaxEdgeId ==
    /\ pc = "RenumberEdges"
    /\ current_edge > GetNumberOfEdges
    /\ m_max_edge_id' = MaxEdgeId(numbered_edges_count)
    /\ pc' = "GenerateEdgeExpandedNodes"
    /\ current_edge' = 1
    /\ UNCHANGED <<m_node_based_graph, inputs, numbered_edges_count,
                   m_edge_based_node_weights, nodes_out, m_edge_based_edge_list,
                   counters, streams, turn_loop>>

(***************************************************************************)
(* Run, second part: GenerateEdgeExpandedNodes.                            *)
(***************************************************************************)
\* the generation loop passing over no edge
SkipsNoEdge(node_u, node_v) == FALSE

\* the generation loop picks only every other edge, every road being there
\* as an outgoing and as an incoming edge
SkipsEdge(node_u, node_v) == node_u > node_v

\* one iteration of the loop over all edges e1 = (node_u, node_v)
GenerateEdgeExpandedNodes ==
    /\ pc = "GenerateEdgeExpandedNodes"
    /\ current_edge <= GetNumberOfEdges
    /\ LET edge_data == GetEdgeData(current_edge)
           node_u == edge_data.source
           node_v == GetTarget(current_edge)
           inserted == IF edge_data.edge_id = SPECIAL_NODEID
                       THEN InsertEdgeBasedNode(node_v, node_u)
                       ELSE InsertEdgeBasedNode(node_u, node_v)
       IN  IF SkipsEdge(node_u, node_v)
           THEN UNCHANGED <<m_edge_based_node_weights, nodes_out>>
           ELSE /\ m_edge_based_node_weights' = inserted.weights
                /\ m_edge_based_node_list' = inserted.nodes
                /\ m_edge_based_node_is_startpoint' = inserted.startpoints
    /\ current_edge' = current_edge + 1
    /\ UNCHANGED <<m_node_based_graph, inputs, pc, numbered_edges_count,
                   m_max_edge_id, m_edge_based_edge_list, counters, streams,
                   turn_loop>>

(***************************************************************************)
(* Run, third part: GenerateEdgeExpandedEdges.                             *)
(***************************************************************************)
\* the start of GenerateEdgeExpandedEdges: counters reset, the stream opened
\* and the empty length prefix written
OpenEdgeDataFile ==
    /\ pc = "GenerateEdgeExpandedNodes"
    /\ current_edge > GetNumberOfEdges
    /\ node_based_edge_counter' = 0
    /\ original_edges_counter' = 0
    /\ restricted_turns_counter' = 0
    /\ skipped_uturns_counter' = 0
    /\ skipped_barrier_turns_counter' = 0
    /\ edge_data_file' = [prefix |-> U32(0), body |-> <<>>]
    /\ original_edge_data_vector' = <<>>
    /\ pc' = "GenerateEdgeExpandedEdges"
    /\ current_edge' = 1
    /\ UNCHANGED <<m_node_based_graph, inputs, numbered_edges_count, m_max_edge_id,
                   m_edge_based_node_weights, nodes_out, m_edge_based_edge_list,
                   edge_penalty_file, edge_segment_file, turn_loop>>

\* one iteration of the loop over the edges edge_form_u out of node_u, up
\* to the loop over its turn candidates
ProcessViaEdge ==
    /\ pc = "GenerateEdgeExpandedEdges"
    /\ current_edge <= GetNumberOfEdges
    /\ IF GetEdgeData(current_edge).reversed
       THEN /\ current_edge' = current_edge + 1
            /\ UNCHANGED <<pc, counters, turn_loop>>
       ELSE \E uninitialized \in BOOLEAN :
            LET node_u == GetEdgeData(current_edge).source
                found == getTurnCandidates(node_u, current_edge, uninitialized)
            IN  /\ node_based_edge_counter' = node_based_edge_counter + 1
                /\ restricted_turns_counter' = restricted_turns_counter + found.restricted
                /\ skipped_uturns_counter' = skipped_uturns_counter + found.skipped_uturns
                /\ skipped_barrier_turns_counter' =
                       skipped_barrier_turns_counter + found.skipped_barrier
                /\ turn_candidates' =
                       suppressTurns(current_edge,
                                     optimizeCandidates(current_edge, found.candidates))
                /\ turn_cursor' = 1
                /\ pc' = "turns"
                /\ UNCHANGED <<current_edge, original_edges_counter, distance>>
    /\ UNCHANGED <<m_node_based_graph, inputs, numbered_edges_count, m_max_edge_id,
                   m_edge_based_node_weights, nodes_out, m_edge_based_edge_list,
                   streams>>

\* one iteration of the loop over turn_candidates, first half: an invalid
\* turn is passed over; a valid turn gets its weight and its OriginalEdgeData
EmitOriginalEdgeData ==
    /\ pc = "turns"
    /\ turn_cursor <= Len(turn_candidates)
    /\ LET turn == turn_candidates[turn_cursor]
       IN  IF ~turn.valid
           THEN /\ turn_cursor' = turn_cursor + 1
                /\ UNCHANGED <<pc, distance, original_edge_data_vector,
                               original_edges_counter>>
           ELSE /\ distance' = TurnWeight(current_edge, turn)
                /\ original_edge_data_vector' =
                       Append(original_edge_data_vector,
                              OriginalEdgeData(current_edge, turn))
                /\ original_edges_counter' = original_edges_counter + 1
                /\ pc' = "emit"
                /\ UNCHANGED turn_cursor
    /\ UNCHANGED <<m_node_based_graph, inputs, current_edge, numbered_edges_count,
                   m_max_edge_id, m_edge_based_node_weights, nodes_out,
                   m_edge_based_edge_list, restricted_turns_counter,
                   skipped_uturns_counter, skipped_barrier_turns_counter,
                   node_based_edge_counter, edge_data_file, edge_penalty_file,
                   edge_segment_file, turn_candidates>>

\* FlushVectorToStream without the clear() of the buffer
FlushWithoutClear(file, vector) ==
    IF vector = <<>> THEN [file |-> file, vector |-> vector]
    ELSE [file |-> [file EXCEPT !.body = file.body \o vector], vector |-> vector]

\* FlushVectorToStream
FlushVectorToStream(file, vector) ==
    IF vector = <<>> THEN [file |-> file, vector |-> vector]
    ELSE [file |-> [file EXCEPT !.body = file.body \o vector], vector |-> <<>>]

\* the flush test letting one record more into the buffer
OverFlushLimitByTwo(size) == size > FlushLimit + 1

\* the flush test: the buffer holds more records than the limit
OverFlushLimit(size) == size > FlushLimit

\* second half of the iteration: the buffer is flushed when over its limit,
\* the expanded edge appended, the lookup streams written
EmitEdgeBasedEdge ==
    /\ pc = "emit"
    /\ LET turn == turn_candidates[turn_cursor]
           edge_data1 == GetEdgeData(current_edge)
           edge_data2 == GetEdgeData(turn.eid)
           flushed == IF OverFlushLimit(Len(original_edge_data_vector))
                      THEN FlushVectorToStream(edge_data_file, original_edge_data_vector)
                      ELSE [file |-> edge_data_file, vector |-> original_edge_data_vector]
       IN  /\ edge_data_file' = flushed.file
           /\ original_edge_data_vector' = flushed.vector
           /\ m_edge_based_edge_list' =
                  Append(m_edge_based_edge_list,
                         [source |-> edge_data1.edge_id, target |-> edge_data2.edge_id,
                          edge_id |-> Len(m_edge_based_edge_list), weight |-> distance,
                          forward |-> TRUE, backward |-> FALSE])
           /\ IF generate_edge_lookup
              THEN /\ edge_penalty_file' =
                          Append(edge_penalty_file,
                                 U32Sub(distance, U32(edge_data1.distance)))
                   /\ edge_segment_file' =
                          Append(edge_segment_file,
                                 SegmentLookup(edge_data1.source, current_edge))
              ELSE UNCHANGED <<edge_penalty_file, edge_segment_file>>
    /\ turn_cursor' = turn_cursor + 1
    /\ pc' = "turns"
    /\ UNCHANGED <<m_node_based_graph, inputs, current_edge, numbered_edges_count,
                   m_max_edge_id, m_edge_based_node_weights, nodes_out, counters,
                   turn_candidates, distance>>

\* the loop over turn_candidates ends: on to the next edge
NextViaEdge ==
    /\ pc = "turns"
    /\ turn_cursor > Len(turn_candidates)
    /\ pc' = "GenerateEdgeExpandedEdges"
    /\ current_edge' = current_edge + 1
    /\ UNCHANGED <<m_node_based_graph, inputs, numbered_edges_count, m_max_edge_id,
                   m_edge_based_node_weights, nodes_out, m_edge_based_edge_list,
                   counters, streams, turn_loop>>

\* the end of GenerateEdgeExpandedEdges: the last flush and the length prefix
WriteLengthPrefix ==
    /\ pc = "GenerateEdgeExpandedEdges"
    /\ current_edge > GetNumberOfEdges
    /\ LET flushed == FlushVectorToStream(edge_data_file, original_edge_data_vector)
       IN  /\ edge_data_file' = [flushed.file EXCEPT !.prefix = U32(original_edges_counter)]
           /\ original_edge_data_vector' = flushed.vector
    /\ pc' = "done"
    /\ UNCHANGED <<m_node_based_graph, inputs, current_edge, numbered_edges_count,
                   m_max_edge_id, m_edge_based_node_weights, nodes_out,
                   m_edge_based_edge_list, counters, edge_penalty_file,
                   edge_segment_file, turn_loop>>

Next ==
    \/ RenumberEdges
    \/ SetMaxEdgeId
    \/ GenerateEdgeExpandedNodes
    \/ OpenEdgeDataFile
    \/ ProcessViaEdge
    \/ EmitOriginalEdgeData
    \/ EmitEdgeBasedEdge
    \/ NextViaEdge
    \/ WriteLengthPrefix

Spec == Init /\ [][Next]_vars

(***************************************************************************)
(* Properties.                                                             *)
(***************************************************************************)
NonReversedEdges == {e \in 1 .. GetNumberOfEdges : ~GetEdgeData(e).reversed}

AssignedIds == {GetEdgeData(e).edge_id : e \in NonReversedEdges}

Renumbered == pc # "RenumberEdges"

\* C2 as stated: after RenumberEdges every non-reversed edge has an edge_id
\* in [0, m_max_edge_id], no two share one, and the assigned ids are exactly
\* the range 0 .. m_max_edge_id: every number of that range is some edge's id
C2_AsStated ==
    Renumbered =>
        /\ \A e \in NonReversedEdges : U32Leq(GetEdgeData(e).edge_id, m_max_edge_id)
        /\ \A e, f \in NonReversedEdges :
               GetEdgeData(e).edge_id = GetEdgeData(f).edge_id => e = f
        /\ \A k \in 0 .. GetNumberOfEdges :
               U32Leq(U32(k), m_max_edge_id) => U32(k) \in AssignedIds

\* C2, amended: after RenumberEdges the n non-reversed edges have pairwise
\* different edge_ids, the assigned ids are exactly 0 .. n - 1, and
\* m_max_edge_id = n - 1 modulo 2^32 (it is 2^32 - 1 when n = 0)
C2_IdsAreZeroToCountMinusOne ==
    Renumbered =>
        LET n == Cardinality(NonReversedEdges)
        IN  /\ \A e, f \in NonReversedEdges :
                   GetEdgeData(e).edge_id = GetEdgeData(f).edge_id => e = f
            /\ AssignedIds = {U32(k) : k \in 0 .. n - 1}
            /\ U32Add(m_max_edge_id, U32(1)) = U32(n)
            /\ n = 0 => m_max_edge_id = U32Max
            /\ \A e \in 1 .. GetNumberOfEdges :
                   GetEdgeData(e).reversed => GetEdgeData(e).edge_id = SPECIAL_EDGEID

\* three edges renumbered, beside edges that are reversed
C2_Witness ==
    /\ Renumbered
    /\ Cardinality(NonReversedEdges) >= 3
    /\ Cardinality(NonReversedEdges) < GetNumberOfEdges
    /\ m_max_edge_id = U32(Cardinality(NonReversedEdges) - 1)

\* the targets of the expanded edges out of expanded node id, in list order
ExpandedTargets(id) ==
    LET from_id == SelectSeq(m_edge_based_edge_list, LAMBDA edge : edge.source = id)
    IN  [k \in 1 .. Len(from_id) |-> from_id[k].target]

\* the edge_ids of the valid candidates of cs, in order
ValidTargets(cs) ==
    LET valid == SelectSeq(cs, LAMBDA candidate : candidate.valid)
    IN  [k \in 1 .. Len(valid) |-> GetEdgeData(valid[k].eid).edge_id]

\* the onto-edges of via_eid whose turn the rules of getTurnCandidates allow
AllowedOnto(via_eid) ==
    {onto \in Range(GetAdjacentEdgeRange(GetTarget(via_eid))) :
        CandidateFor(GetEdgeData(via_eid).source, via_eid, onto).candidate.valid}

\* C1: for every non-reversed via-edge, the expanded edges out of it are,
\* one each and in order, the valid candidates of the final list passed so
\* far, none belongs to an invalid candidate, and the valid candidates of
\* the final list are all the turns the candidate rules allow: none is lost
C1_OneEdgePerValidCandidate ==
    /\ pc = "turns" =>
          /\ ExpandedTargets(GetEdgeData(current_edge).edge_id)
                = ValidTargets(SubSeq(turn_candidates, 1, turn_cursor - 1))
          /\ {turn_candidates[i].eid : i \in {j \in DOMAIN turn_candidates :
                                                 turn_candidates[j].valid}}
                = AllowedOnto(current_edge)
          /\ \A i, j \in DOMAIN turn_candidates :
                turn_candidates[i].eid = turn_candidates[j].eid => i = j
    /\ pc = "done" =>
          \A via \in NonReversedEdges :
              /\ Len(ExpandedTargets(GetEdgeData(via).edge_id))
                    = Cardinality(AllowedOnto(via))
              /\ Range(ExpandedTargets(GetEdgeData(via).edge_id))
                    = {GetEdgeData(onto).edge_id : onto \in AllowedOnto(via)}

\* a via-edge whose final list has been emitted: two valid candidates with
\* their edges, one invalid candidate without
C1_Witness ==
    /\ pc = "turns"
    /\ turn_cursor > Len(turn_candidates)
    /\ Len(ExpandedTargets(GetEdgeData(current_edge).edge_id)) >= 2
    /\ \E i \in DOMAIN turn_candidates : ~turn_candidates[i].valid

\* C6: when GenerateEdgeExpandedEdges has finished, the count at offset 0 of
\* the original-edge-data stream is the number of records in its body, the
\* buffer is empty, and the body holds one record per expanded edge, in the
\* order of the edges
C6_PrefixCountsBody ==
    pc = "done" =>
        /\ edge_data_file.prefix = U32(Len(edge_data_file.body))
        /\ original_edge_data_vector = <<>>
        /\ Len(edge_data_file.body) = Len(m_edge_based_edge_list)
        /\ \A k \in DOMAIN edge_data_file.body :
               GetEdgeData(edge_data_file.body[k].via_node).edge_id
                   = m_edge_based_edge_list[k].source

\* a finished run with two intermediate flushes and a rest for the last one
C6_Witness ==
    /\ pc = "done"
    /\ Len(edge_data_file.body) > 2 * (FlushLimit + 1)
    /\ edge_data_file.prefix = U32(Len(edge_data_file.body))

\* the via-edge of an expanded edge: the source edge numbered edge.source
ViaEdgeOf(edge) ==
    CHOOSE e \in NonReversedEdges : GetEdgeData(e).edge_id = edge.source

\* C3 as stated: every expanded edge of the edge list has a source id
\* different from its target id
C3_AsStated ==
    \A k \in DOMAIN m_edge_based_edge_list :
        m_edge_based_edge_list[k].source # m_edge_based_edge_list[k].target

\* C4 as stated: the weight of every expanded edge is at least the distance
\* of its via-edge, and the fixed penalty written for it, weight minus that
\* distance, has not wrapped around (it does not exceed the weight)
C4_AsStated ==
    /\ \A k \in DOMAIN m_edge_based_edge_list :
           U32Leq(U32(GetEdgeData(ViaEdgeOf(m_edge_based_edge_list[k])).distance),
                  m_edge_based_edge_list[k].weight)
    /\ \A k \in DOMAIN edge_penalty_file :
           U32Leq(edge_penalty_file[k], m_edge_based_edge_list[k].weight)

\* the turn whose expanded edge was appended last, while its via-edge is
\* still the current one
LastTurnEmitted ==
    /\ pc = "turns"
    /\ turn_cursor > 1
    /\ turn_candidates[turn_cursor - 1].valid

LastTurn == turn_candidates[turn_cursor - 1]

LastEdge == m_edge_based_edge_list[Len(m_edge_based_edge_list)]

\* the penalties the code adds for traffic light and U-turn, as integers
SignalAndUturnPenalty(turn) ==
    (IF GetTarget(current_edge) \in m_traffic_lights
     THEN speed_profile.traffic_signal_penalty ELSE 0)
    + (IF turn.instruction.type \in {"Turn", "EndOfRoad"}
          /\ turn.instruction.direction_modifier = "UTurn"
       THEN speed_profile.u_turn_penalty ELSE 0)

HookReturns(turn) ==
    /\ speed_profile.has_turn_penalty_function
    /\ turn_function.fails # "always"
    /\ ~(turn_function.fails = "left" /\ 180 - turn.angle < 0)

\* the hook's value in tenths for the argument 180 - angle
HookValue(turn) ==
    LET arg == 180 - turn.angle
    IN  turn_function.base + turn_function.slope * (IF arg < 0 THEN -arg ELSE arg)

\* C5 as stated: the weight is via.distance plus the traffic-signal penalty
\* at a traffic light plus the U-turn penalty for a U-turn plus the value of
\* the hook (nothing where there is no hook value); in tenths
C5_AsStated ==
    LastTurnEmitted =>
        LET tenths == 10 * (GetEdgeData(current_edge).distance
                            + SignalAndUturnPenalty(LastTurn))
                      + (IF HookReturns(LastTurn) THEN HookValue(LastTurn) ELSE 0)
        IN  /\ tenths % 10 = 0
            /\ LastEdge.weight = I32ToU32(tenths \div 10)

\* the whole number h nearest to zero from tenths: h = trunc(tenths / 10)
Truncated(tenths) ==
    CHOOSE h \in -400 .. 400 :
        IF tenths >= 0 THEN 10 * h <= tenths /\ tenths < 10 * h + 10
        ELSE 10 * h >= tenths /\ tenths > 10 * h - 10

\* C5, amended: the weight is, modulo 2^32, via.distance plus the
\* traffic-signal penalty iff the turn node has a traffic light, plus the
\* U-turn penalty iff the final instruction is a basic turn with modifier
\* UTurn, plus the hook's value for 180 - angle truncated towards zero to an
\* int, and plus nothing when the profile has no hook or the call raises
C5_WeightIsTruncatedSum ==
    LastTurnEmitted =>
        LastEdge.weight =
            I32ToU32(GetEdgeData(current_edge).distance
                     + SignalAndUturnPenalty(LastTurn)
                     + (IF HookReturns(LastTurn)
                        THEN Truncated(HookValue(LastTurn)) ELSE 0))

\* a U-turn at a traffic light, charged a hook value that is no whole number
C5_Witness ==
    /\ LastTurnEmitted
    /\ GetTarget(current_edge) \in m_traffic_lights
    /\ isUturn(LastTurn.instruction)
    /\ HookReturns(LastTurn)
    /\ HookValue(LastTurn) % 10 # 0
    /\ speed_profile.u_turn_penalty > 0
    /\ speed_profile.traffic_signal_penalty > 0

\* the candidates of the current via-edge as getTurnCandidates returns them
\* when the uninitialized has_roundabout_entry holds the value garbage
Found(garbage) ==
    getTurnCandidates(GetEdgeData(current_edge).source, current_edge, garbage)

\* the final candidate list of the current via-edge for that value
Processed(garbage) ==
    suppressTurns(current_edge, optimizeCandidates(current_edge, Found(garbage).candidates))

\* what the loop over a final list writes: per valid candidate the target
\* id, the OriginalEdgeData record and the weight
Emission(cs) ==
    LET valid == SelectSeq(cs, LAMBDA candidate : candidate.valid)
    IN  [k \in 1 .. Len(valid) |->
            [target |-> GetEdgeData(valid[k].eid).edge_id,
             record |-> OriginalEdgeData(current_edge, valid[k]),
             weight |-> TurnWeight(current_edge, valid[k])]]

Returned == {Found(TRUE).candidates, Found(FALSE).candidates}

FromNode == GetEdgeData(current_edge).source

TurnNode == GetTarget(current_edge)

\* C8: when the restriction map names an only-turn target for (from node,
\* turn node), every returned candidate whose target node is another node
\* is invalid
C8_OnlyTurnInvalidatesOthers ==
    pc = "turns" /\ turn_cursor = 1 =>
        LET only_target == CheckForEmanatingIsOnlyTurn(FromNode, TurnNode)
        IN  only_target # SPECIAL_NODEID =>
                \A cs \in Returned : \A i \in DOMAIN cs :
                    U32(GetTarget(cs[i].eid)) # only_target => ~cs[i].valid

\* an only-turn in force: the turn to its target is valid, and a turn onto
\* another open edge is invalid
C8_Witness ==
    /\ pc = "turns"
    /\ CheckForEmanatingIsOnlyTurn(FromNode, TurnNode) # SPECIAL_NODEID
    /\ \E i, j \in DOMAIN turn_candidates :
          /\ turn_candidates[i].valid
          /\ U32(GetTarget(turn_candidates[i].eid))
                = CheckForEmanatingIsOnlyTurn(FromNode, TurnNode)
          /\ ~turn_candidates[j].valid
          /\ ~GetEdgeData(turn_candidates[j].eid).reversed
          /\ GetTarget(turn_candidates[j].eid) # FromNode

\* C9: when the turn node is a barrier node, every returned candidate whose
\* target node is not the from-node is invalid
C9_BarrierAllowsOnlyUturn ==
    pc = "turns" /\ turn_cursor = 1 /\ TurnNode \in m_barrier_nodes =>
        \A cs \in Returned : \A i \in DOMAIN cs :
            GetTarget(cs[i].eid) # FromNode => ~cs[i].valid

\* a barrier node with a valid U-turn and an open edge onwards that is invalid
C9_Witness ==
    /\ pc = "turns"
    /\ TurnNode \in m_barrier_nodes
    /\ \E i, j \in DOMAIN turn_candidates :
          /\ turn_candidates[i].valid
          /\ GetTarget(turn_candidates[i].eid) = FromNode
          /\ ~turn_candidates[j].valid
          /\ ~GetEdgeData(turn_candidates[j].eid).reversed
          /\ GetTarget(turn_candidates[j].eid) # FromNode

\* the roads at node n that are routable in both directions
BidirectionalRoads(n) ==
    {e \in Range(GetAdjacentEdgeRange(n)) :
        ~GetEdgeData(e).reversed /\ ~GetEdgeData(OppositeEdge(e)).reversed}

\* C10 as stated: a returned candidate leading back to the from-node is
\* valid only if no other returned candidate is valid (it is the sole legal
\* move), or the turn node is no barrier and at most one road routable in
\* both directions emanates from it
C10_AsStated ==
    pc = "turns" /\ turn_cursor = 1 =>
        \A cs \in Returned : \A i \in DOMAIN cs :
            GetTarget(cs[i].eid) = FromNode /\ cs[i].valid =>
                \/ \A j \in DOMAIN cs : j # i => ~cs[j].valid
                \/ /\ TurnNode \notin m_barrier_nodes
                   /\ Cardinality(BidirectionalRoads(TurnNode)) <= 1

\* C10 where it holds: the same statement for the graphs in which no road
\* leads from a node to itself
C10_OnGraphsWithoutLoopRoad ==
    (\A e \in 1 .. GetNumberOfEdges : GetEdgeData(e).source # GetTarget(e))
        => C10_AsStated

\* the current via-edge leads into a dead end: its turn node has exactly one
\* adjacent edge
DeadEnd == pc = "turns" /\ GetOutDegree(TurnNode) = 1

\* C11 as stated: at a dead end getTurnCandidates returns exactly one
\* candidate, it leads back to the from-node and it is valid
C11_AsStated ==
    DeadEnd /\ turn_cursor = 1 =>
        \A cs \in Returned :
            /\ Len(cs) = 1
            /\ GetTarget(cs[1].eid) = FromNode
            /\ cs[1].valid

\* the U-turn from -> turn node -> from is open: the edge back is not
\* reversed, no only-turn of (from, turn node) names another node and,
\* where there is no only-turn, no restriction forbids the U-turn
UturnIsOpen(onto_edge) ==
    LET only_target == CheckForEmanatingIsOnlyTurn(FromNode, TurnNode)
    IN  /\ ~GetEdgeData(onto_edge).reversed
        /\ only_target \in {SPECIAL_NODEID, U32(FromNode)}
        /\ only_target = SPECIAL_NODEID
              => ~CheckIfTurnIsRestricted(FromNode, TurnNode, FromNode)

\* C11, amended: at a dead end getTurnCandidates returns exactly one
\* candidate, the one leading back to the from-node; it is valid exactly when
\* the U-turn is open (so it is invalid on a dead-end road that is one-way
\* into the dead end), the post-processor keeps it so, and a valid one gets
\* its expanded edge
C11_DeadEndUturnValidIfOpen ==
    /\ DeadEnd /\ turn_cursor = 1 =>
          \A cs \in Returned \cup {turn_candidates} :
              /\ Len(cs) = 1
              /\ GetTarget(cs[1].eid) = FromNode
              /\ cs[1].valid <=> UturnIsOpen(cs[1].eid)
    /\ DeadEnd /\ turn_cursor = 2 /\ turn_candidates[1].valid =>
          /\ LastEdge.source = GetEdgeData(current_edge).edge_id
          /\ LastEdge.target = GetEdgeData(turn_candidates[1].eid).edge_id

\* a dead end on a two-way road: the U-turn is valid and its expanded edge
\* has been appended
C11_Witness ==
    /\ DeadEnd
    /\ turn_cursor = 2
    /\ turn_candidates[1].valid
    /\ LastEdge.source = GetEdgeData(current_edge).edge_id
    /\ m_restriction_map = [only |-> {}, no |-> {}]

\* the candidate as the loop of getTurnCandidates pushed it, before any
\* reclassification
Analyzed(eid) == CandidateFor(FromNode, current_edge, eid).candidate

\* the candidates pushed for the current via-edge
Pushed == {Analyzed(eid) : eid \in Range(GetAdjacentEdgeRange(TurnNode))}

\* the intersection has a valid candidate that does not enter a roundabout
\* and a valid candidate that enters one
HasValidEntryAndValidOther ==
    /\ \E c \in Pushed : c.valid /\ ~entersRoundabout(c.instruction)
    /\ \E c \in Pushed : c.valid /\ entersRoundabout(c.instruction)

AtExit(type) ==
    IF type = "EnterRoundabout" THEN "EnterRoundaboutAtExit"
    ELSE IF type = "EnterRotary" THEN "EnterRotaryAtExit"
    ELSE type

\* the candidates of cs carry the reclassified types exactly when the
\* intersection has both kinds of valid candidate, and the types AnalyzeTurn
\* gave them otherwise
ReclassifiedExactlyWhenBoth(cs) ==
    \A i \in DOMAIN cs :
        cs[i].instruction.type =
            IF HasValidEntryAndValidOther
            THEN AtExit(Analyzed(cs[i].eid).instruction.type)
            ELSE Analyzed(cs[i].eid).instruction.type

\* C12 as stated: in every list getTurnCandidates can return, EnterRoundabout
\* and EnterRotary are changed to their AtExit types on all candidates
\* exactly when the intersection has a valid candidate not entering a
\* roundabout and a valid candidate entering one; without a valid entering
\* candidate no candidate is reclassified
C12_AsStated ==
    pc = "turns" /\ turn_cursor = 1 =>
        \A cs \in Returned : ReclassifiedExactlyWhenBoth(cs)

\* C12 where it holds: the same statement for the runs in which the
\* unassigned has_roundabout_entry happens to read false
C12_WhenFlagReadsFalse ==
    pc = "turns" /\ turn_cursor = 1 =>
        ReclassifiedExactlyWhenBoth(Found(FALSE).candidates)

\* C13: a turn for which the hook is not called (the profile has none) or
\* for which the call fails still gets its expanded edge, with the weight
\* via.distance plus the traffic-signal and U-turn penalties and nothing for
\* the hook; and a run whose hook fails ends with one expanded edge for
\* every allowed turn of every via-edge, so no failure cuts the run short
C13_HookFailureCostsNothing ==
    /\ LastTurnEmitted /\ ~HookReturns(LastTurn) =>
          /\ LastEdge.source = GetEdgeData(current_edge).edge_id
          /\ LastEdge.target = GetEdgeData(LastTurn.eid).edge_id
          /\ LastEdge.weight = I32ToU32(GetEdgeData(current_edge).distance
                                        + SignalAndUturnPenalty(LastTurn))
    /\ pc = "done" /\ turn_function.fails # "never" =>
          \A via \in NonReversedEdges :
              Len(ExpandedTargets(GetEdgeData(via).edge_id))
                  = Cardinality(AllowedOnto(via))

\* the hook has failed for two turns of one via-edge at a traffic light, and
\* both have their expanded edges
C13_Witness ==
    /\ LastTurnEmitted
    /\ speed_profile.has_turn_penalty_function
    /\ ~HookReturns(LastTurn)
    /\ GetTarget(current_edge) \in m_traffic_lights
    /\ \E i \in 1 .. turn_cursor - 2 :
          turn_candidates[i].valid /\ ~HookReturns(turn_candidates[i])
    /\ Len(ExpandedTargets(GetEdgeData(current_edge).edge_id)) >= 2

\* Run has returned
Finished == pc = "done"

C15_OneStartpointFlagPerNode ==
    /\ Len(m_edge_based_node_list) = Len(m_edge_based_node_is_startpoint)
    /\ \A k \in DOMAIN m_edge_based_node_list :
          LET node == m_edge_based_node_list[k]
          IN  m_edge_based_node_is_startpoint[k] =
                  (GetEdgeData(node.forward_packed_geometry_id).startpoint
                   \/ GetEdgeData(node.reverse_packed_geometry_id).startpoint)

\* the generation under way with the two segments of a compressed road in
\* the list, flagged because of the reverse edge alone
C15_Witness ==
    /\ pc = "GenerateEdgeExpandedNodes"
    /\ current_edge <= GetNumberOfEdges
    /\ Len(m_edge_based_node_list) >= 2
    /\ \E k \in DOMAIN m_edge_based_node_list :
          LET node == m_edge_based_node_list[k]
          IN  /\ node.fwd_segment_position = 1
              /\ ~GetEdgeData(node.forward_packed_geometry_id).startpoint
              /\ GetEdgeData(node.reverse_packed_geometry_id).startpoint
              /\ m_edge_based_node_is_startpoint[k]

\* a sorted list of three candidates headed by the U-turn, whose second and
\* third are not on a roundabout
UturnAndTwo(cs) ==
    /\ Len(cs) = 3
    /\ cs[1].instruction = Instruction("Turn", "UTurn")
    /\ cs[1].angle = 0
    /\ ~isOnRoundabout(cs[2].instruction)
    /\ ~isOnRoundabout(cs[3].instruction)

\* the Y-fork of C16: both branches valid, within 35 degrees of straight
\* on, and of the road class of the via-edge
IsFork(cs) ==
    /\ UturnAndTwo(cs)
    /\ cs[2].valid /\ cs[3].valid
    /\ angularDeviation(cs[2].angle, STRAIGHT_ANGLE) < NARROW_TURN_ANGLE
    /\ angularDeviation(cs[3].angle, STRAIGHT_ANGLE) < NARROW_TURN_ANGLE
    /\ GetEdgeData(cs[2].eid).road_class = GetEdgeData(current_edge).road_class
    /\ GetEdgeData(cs[3].eid).road_class = GetEdgeData(current_edge).road_class

\* C16: when the list getTurnCandidates returns is such a Y-fork, the final
\* list (after optimizeCandidates and suppressTurns) has candidate 1 =
\* (Fork, SlightRight) and candidate 2 = (Fork, SlightLeft), counting from 0
C16_ForkOfSameClass ==
    pc = "turns" /\ turn_cursor = 1 =>
        \A garbage \in BOOLEAN :
            IsFork(Found(garbage).candidates) =>
                LET final == Processed(garbage)
                IN  /\ Len(final) = 3
                    /\ final[2].instruction = Instruction("Fork", "SlightRight")
                    /\ final[3].instruction = Instruction("Fork", "SlightLeft")

\* a Y-fork of roads that carry the name of the via-edge, labelled
C16_Witness ==
    /\ pc = "turns"
    /\ turn_cursor = 1
    /\ IsFork(Found(FALSE).candidates)
    /\ GetEdgeData(turn_candidates[2].eid).name_id = GetEdgeData(current_edge).name_id
    /\ GetEdgeData(current_edge).name_id # 0
    /\ turn_candidates[2].instruction = Instruction("Fork", "SlightRight")
    /\ turn_candidates[3].instruction = Instruction("Fork", "SlightLeft")

\* the T-intersection of C17: the second candidate within 35 degrees of 90,
\* the third within 35 degrees of 270
IsEndOfRoad(cs) ==
    /\ UturnAndTwo(cs)
    /\ angularDeviation(cs[2].angle, 90) < NARROW_TURN_ANGLE
    /\ angularDeviation(cs[3].angle, 270) < NARROW_TURN_ANGLE

\* the list after optimizeCandidates alone
Optimized(garbage) == optimizeCandidates(current_edge, Found(garbage).candidates)

EndOfRoadBranch(cs, k, side) ==
    LET in_data == GetEdgeData(current_edge)
        out_data == GetEdgeData(cs[k].eid)
        same_name == in_data.name_id = out_data.name_id
        obvious_with_same_name == ObviousWithSameName(current_edge, cs)
        announced == /\ cs[k].valid
                     /\ in_data.travel_mode = out_data.travel_mode
                     /\ isObviousChoice(current_edge, k, cs)
    IN  IF announced /\ same_name THEN Instruction("Suppressed", side)
        ELSE IF announced /\ obvious_with_same_name = 0
        THEN IF isRampClass(in_data.road_class) /\ ~isRampClass(out_data.road_class)
             THEN Instruction("Merge", mirrorDirectionModifier(side))
             ELSE Instruction("EndOfRoad", side)
        ELSE IF announced
        THEN Instruction("EndOfRoad",
                         IF cs[k].angle < cs[obvious_with_same_name].angle
                         THEN "SlightRight" ELSE "SlightLeft")
        ELSE IF same_name /\ in_data.name_id # 0 /\ obvious_with_same_name = 0
        THEN Instruction("Continue", side)
        ELSE Instruction("EndOfRoad", side)

PathGraph ==
    /\ GetNumberOfEdges = 4
    /\ \A e \in 1 .. 4 : ~GetEdgeData(e).reversed /\ Len(GetBucketReference(e)) = 1
    /\ \E v \in Nodes : GetOutDegree(v) = 2 /\ \A e \in 1 .. 4 :
          GetEdgeData(e).source # GetTarget(e) /\ v \in {GetEdgeData(e).source, GetTarget(e)}
    /\ m_barrier_nodes = {}
    /\ m_restriction_map = [only |-> {}, no |-> {}]

\* C18 as stated: for the path graph, Run leaves exactly 4 entries in the
\* expanded-node list
C18_AsStated ==
    Finished /\ PathGraph => Len(m_edge_based_node_list) = 4

\* C18, amended: for the path graph, Run numbers 4 expanded nodes (the ids
\* 0 .. 3 of the four directed edges, with 4 weights and m_max_edge_id = 3),
\* and the expanded-node list has exactly 2 entries, one per road, each
\* holding the id of its forward and of its reverse direction
C18_TwoEntriesForFourIds ==
    Finished /\ PathGraph =>
        /\ Len(m_edge_based_node_list) = 2
        /\ Len(m_edge_based_node_is_startpoint) = 2
        /\ {m_edge_based_node_list[k].forward_edge_based_node_id : k \in 1 .. 2}
              \cup {m_edge_based_node_list[k].reverse_edge_based_node_id : k \in 1 .. 2}
              = {U32(id) : id \in 0 .. 3}
        /\ Len(m_edge_based_node_weights) = 4
        /\ m_max_edge_id = U32(3)

\* a finished run on the path graph, with its two list entries
C18_Witness ==
    /\ Finished
    /\ PathGraph
    /\ Len(m_edge_based_node_list) = 2
    /\ Len(m_edge_based_edge_list) > 0

\* the edges out of the turn node whose target is not the only-turn target
\* of (from node, turn node), when there is such a target
OffTheOnlyTurn ==
    LET only_target == CheckForEmanatingIsOnlyTurn(FromNode, TurnNode)
    IN  IF only_target = SPECIAL_NODEID THEN {}
        ELSE {onto \in Range(GetAdjacentEdgeRange(TurnNode)) :
                 U32(GetTarget(onto)) # only_target}

\* what getTurnCandidates adds to restricted_turns_counter for onto
RestrictedCount(onto) == CandidateFor(FromNode, current_edge, onto).restricted

\* C19 as stated: every edge out of the turn node whose target is not the
\* only-turn target adds exactly one to restricted_turns_counter, reversed
\* or not
C19_AsStated ==
    pc = "turns" /\ turn_cursor = 1 =>
        \A onto \in OffTheOnlyTurn : RestrictedCount(onto) = 1

\* C19, amended: an edge out of the turn node whose target is not the
\* only-turn target adds exactly one to restricted_turns_counter when it is
\* not reversed and nothing when it is reversed (the turn being invalid
\* already); the call adds the number of those non-reversed edges
C19_CountsOnlyOpenEdges ==
    pc = "turns" /\ turn_cursor = 1 =>
        /\ \A onto \in OffTheOnlyTurn :
              RestrictedCount(onto) = IF GetEdgeData(onto).reversed THEN 0 ELSE 1
        /\ OffTheOnlyTurn # {} =>
              \A garbage \in BOOLEAN :
                  Found(garbage).restricted
                      = Cardinality({onto \in OffTheOnlyTurn : ~GetEdgeData(onto).reversed})

\* an only-turn in force at a node with an open edge and a reversed edge
\* that both miss its target: the counter has gone up for the open one
C19_Witness ==
    /\ pc = "turns"
    /\ turn_cursor = 1
    /\ \E onto \in OffTheOnlyTurn : GetEdgeData(onto).reversed
    /\ \E onto \in OffTheOnlyTurn : ~GetEdgeData(onto).reversed
    /\ restricted_turns_counter >= 1

\* the final candidate lists of via-edge via, for both values the
\* unassigned flag can hold
FinalLists(via) ==
    {suppressTurns(via, optimizeCandidates(via,
         getTurnCandidates(GetEdgeData(via).source, via, garbage).candidates)) :
        garbage \in BOOLEAN}

\* the final instructions of the valid turns from via onto the edge
\* numbered target
FinalInstructions(via, target) ==
    UNION {{cs[i].instruction : i \in {j \in DOMAIN cs :
                                           /\ cs[j].valid
                                           /\ GetEdgeData(cs[j].eid).edge_id = target}} :
           cs \in FinalLists(via)}

\* C20: after Run the k-th expanded edge has sequential id k (from 0), is
\* forward and not backward, and the k-th record of the stream body is the
\* record of the same turn: the geometry position, name and travel mode of
\* the edge's via-edge and the final instruction of the turn onto its
\* target, whatever the number of flushes
C20_EdgesAndRecordsInStep ==
    Finished =>
        /\ Len(edge_data_file.body) = Len(m_edge_based_edge_list)
        /\ \A k \in DOMAIN m_edge_based_edge_list :
              LET edge == m_edge_based_edge_list[k]
                  record == edge_data_file.body[k]
                  via == ViaEdgeOf(edge)
              IN  /\ edge.edge_id = k - 1
                  /\ edge.forward /\ ~edge.backward
                  /\ record.via_node = GetPositionForID(via)
                  /\ record.name_id = GetEdgeData(via).name_id
                  /\ record.travel_mode = GetEdgeData(via).travel_mode
                  /\ record.turn_instruction \in FinalInstructions(via, edge.target)

\* a finished run whose records went out in several flushes, for via-edges
\* of different names and with different instructions
C20_Witness ==
    /\ Finished
    /\ Len(edge_data_file.body) > 2 * (FlushLimit + 1)
    /\ \E j, k \in DOMAIN edge_data_file.body :
          /\ edge_data_file.body[j].name_id # edge_data_file.body[k].name_id
          /\ edge_data_file.body[j].turn_instruction
                # edge_data_file.body[k].turn_instruction

\* the onto-edges at the turn node that lead back to the from-node and that
\* neither the reversed flag nor the only-turn rule has made invalid
OpenUturns ==
    {onto \in Range(GetAdjacentEdgeRange(TurnNode)) :
        /\ GetTarget(onto) = FromNode
        /\ ~GetEdgeData(onto).reversed
        /\ ~MissesOnlyTurn(TRUE, CheckForEmanatingIsOnlyTurn(FromNode, TurnNode),
                           GetTarget(onto))}

\* the U-turn rule has marked the candidate onto this edge invalid
SkippedByUturnRule(onto) == CandidateFor(FromNode, current_edge, onto).skipped_uturns = 1

\* C21 as stated: at a turn node that is no barrier, a U-turn candidate that
\* is not invalid already is marked invalid by the U-turn rule exactly when
\* the turn node has more than one adjacent edge and more than one of them
\* is bidirectional (itself not reversed, its reverse edge not reversed)
C21_AsStated ==
    pc = "turns" /\ TurnNode \notin m_barrier_nodes =>
        \A onto \in OpenUturns :
            SkippedByUturnRule(onto) <=>
                /\ GetOutDegree(TurnNode) > 1
                /\ Cardinality(BidirectionalRoads(TurnNode)) > 1

\* the adjacent edges of node n whose road can be driven towards n, one-way
\* roads into n included
RoadsOpenTowards(n) ==
    {e \in Range(GetAdjacentEdgeRange(n)) : ~GetEdgeData(OppositeEdge(e)).reversed}

NoLoopRoad == \A e \in 1 .. GetNumberOfEdges : GetEdgeData(e).source # GetTarget(e)

\* C21, what the code does on graphs without a loop road: the U-turn rule
\* marks such a candidate invalid exactly when more than one adjacent edge of
\* the turn node has a reverse edge that is not reversed, whether the
\* adjacent edge itself is reversed or not
C21_CountsRoadsOpenTowardsTurnNode ==
    pc = "turns" /\ TurnNode \notin m_barrier_nodes /\ NoLoopRoad =>
        \A onto \in OpenUturns :
            SkippedByUturnRule(onto) <=> Cardinality(RoadsOpenTowards(TurnNode)) > 1

\* the only-turn target of the current via-edge, or SPECIAL_NODEID
OnlyTarget == CheckForEmanatingIsOnlyTurn(FromNode, TurnNode)

\* the reversed flag, the barrier rule and the U-turn rule leave the turn
\* onto this edge alone
NotPruned(onto) ==
    /\ ~GetEdgeData(onto).reversed
    /\ ~SkippedAtBarrier(TRUE, TurnNode \in m_barrier_nodes, FromNode, GetTarget(onto))
    /\ ~SkippedUturn(TRUE, TurnNode \in m_barrier_nodes, FromNode, TurnNode,
                     GetTarget(onto))

SortedByAngle(cs) == \A i, j \in DOMAIN cs : i < j => cs[i].angle <= cs[j].angle

\* candidate i of cs is invalid and closer than NARROW_TURN_ANGLE to a valid
\* candidate next to it in the cyclic order
IsNearDuplicate(cs, i) ==
    /\ ~cs[i].valid
    /\ \E j \in {getLeft(cs, i), getRight(cs, i)} :
          /\ cs[j].valid
          /\ angularDeviation(cs[i].angle, cs[j].angle) < NARROW_TURN_ANGLE

\* the edges of the candidates of cs, and of its valid candidates
EdgesOf(cs) == {cs[i].eid : i \in DOMAIN cs}

ValidEdgesOf(cs) == {cs[i].eid : i \in {j \in DOMAIN cs : cs[j].valid}}

\* C23 as stated: the list getTurnCandidates returns is sorted by angle
\* ascending, no candidate of it is an invalid candidate closer than 35
\* degrees to a valid candidate cyclically next to it, and it holds every
\* valid candidate pushed
C23_AsStated ==
    pc = "turns" =>
        \A cs \in Returned :
            /\ SortedByAngle(cs)
            /\ \A i \in DOMAIN cs : ~IsNearDuplicate(cs, i)
            /\ ValidEdgesOf(cs) = {c.eid : c \in {p \in Pushed : p.valid}}

\* C23, the part that holds: the returned list is sorted by angle ascending,
\* it holds every valid candidate pushed, and every candidate missing from it
\* was invalid and closer than 35 degrees to some valid candidate
C23_SortedAndOnlyNearDuplicatesErased ==
    pc = "turns" =>
        \A cs \in Returned :
            /\ SortedByAngle(cs)
            /\ ValidEdgesOf(cs) = {c.eid : c \in {p \in Pushed : p.valid}}
            /\ \A p \in Pushed :
                  p.eid \notin EdgesOf(cs) =>
                      /\ ~p.valid
                      /\ \E q \in Pushed :
                            /\ q.valid
                            /\ angularDeviation(p.angle, q.angle) < NARROW_TURN_ANGLE

\* the roads of the input graph, and a directed edge of road k
Roads == {GetEdgeData(e).road : e \in 1 .. GetNumberOfEdges}

EdgesOfRoad(k) == {e \in 1 .. GetNumberOfEdges : GetEdgeData(e).road = k}

\* the expanded nodes of road k, in list order
NodesOfRoad(k) ==
    SelectSeq(m_edge_based_node_list,
              LAMBDA n : GetEdgeData(n.forward_packed_geometry_id).road = k)

NodesGenerated == pc \notin {"RenumberEdges", "GenerateEdgeExpandedNodes"}

\* the expanded nodes of road k are one per segment of its compressed
\* geometry, numbered from 0, and lead as a chain from one end of the road to
\* the other
OneChain(k) ==
    LET ns == NodesOfRoad(k)
        e == CHOOSE e \in EdgesOfRoad(k) : TRUE
        ends == {GetEdgeData(e).source, GetTarget(e)}
    IN  /\ Len(ns) = Len(GetBucketReference(e))
        /\ \A i \in DOMAIN ns : ns[i].fwd_segment_position = i - 1
        /\ \A i \in 1 .. Len(ns) - 1 : ns[i + 1].u = ns[i].v
        /\ {ns[1].u, ns[Len(ns)].v} = ends
        /\ ns[1].u # ns[Len(ns)].v \/ Cardinality(ends) = 1

\* C24 as stated: after GenerateEdgeExpandedNodes every road with a routable
\* direction has exactly one expanded node per segment of its compressed
\* geometry, with segment indices 0 .. len - 1, forming a chain from one
\* endpoint to the other; a road with no routable direction has none
C24_AsStated ==
    NodesGenerated =>
        \A k \in Roads :
            IF \E e \in EdgesOfRoad(k) : ~GetEdgeData(e).reversed
            THEN OneChain(k)
            ELSE NodesOfRoad(k) = <<>>

\* C24 on graphs without a loop road
C24_OneChainPerRoad == NoLoopRoad => C24_AsStated

\* two roads, one with two segments and only one routable direction, have
\* their chains in the list, beside a road that is closed
C24_Witness ==
    /\ NodesGenerated
    /\ NoLoopRoad
    /\ \E k \in Roads :
          /\ Len(NodesOfRoad(k)) = 2
          /\ \E e \in EdgesOfRoad(k) : GetEdgeData(e).reversed
    /\ \E k \in Roads :
          /\ NodesOfRoad(k) = <<>>
          /\ \A e \in EdgesOfRoad(k) : GetEdgeData(e).reversed

\* the directed edges of road k that are routable
OpenEdgesOfRoad(k) == {e \in EdgesOfRoad(k) : ~GetEdgeData(e).reversed}

\* the weight slot of a numbered edge
WeightSlot(e) == m_edge_based_node_weights[U32Small(GetEdgeData(e).edge_id) + 1]

\* the weight RenumberEdges seeded the slot of edge e with
SeededWeight(e) ==
    U32Add(U32(GetEdgeData(e).distance), I32ToU32(speed_profile.u_turn_penalty))

\* C25 as stated: after GenerateEdgeExpandedNodes the weight slot of every
\* road with exactly one routable direction is INVALID_EDGE_WEIGHT, and both
\* slots of every road routable in both directions hold distance +
\* u_turn_penalty
C25_AsStated ==
    NodesGenerated =>
        \A k \in Roads :
            /\ Cardinality(OpenEdgesOfRoad(k)) = 1 =>
                  \A e \in OpenEdgesOfRoad(k) : WeightSlot(e) = INVALID_EDGE_WEIGHT
            /\ Cardinality(OpenEdgesOfRoad(k)) = 2 =>
                  \A e \in OpenEdgesOfRoad(k) : WeightSlot(e) = SeededWeight(e)

\* C25 on graphs without a loop road
C25_OneWaySlotsInvalidated == NoLoopRoad => C25_AsStated

\* a one-way road from the larger to the smaller node id and one from the
\* smaller to the larger, both with invalidated slots, beside a two-way road
C25_Witness ==
    /\ NodesGenerated
    /\ NoLoopRoad
    /\ \E e, f, g \in 1 .. GetNumberOfEdges :
          /\ OpenEdgesOfRoad(GetEdgeData(e).road) = {e}
          /\ GetEdgeData(e).source > GetTarget(e)
          /\ WeightSlot(e) = INVALID_EDGE_WEIGHT
          /\ OpenEdgesOfRoad(GetEdgeData(f).road) = {f}
          /\ GetEdgeData(f).source < GetTarget(f)
          /\ WeightSlot(f) = INVALID_EDGE_WEIGHT
          /\ Cardinality(OpenEdgesOfRoad(GetEdgeData(g).road)) = 2
          /\ WeightSlot(g) = SeededWeight(g)

\* suppressTurns takes its main pass over cs: the special case of three
\* candidates does not apply
MainPass(cs) == SpecialCaseOfThree(cs) = 0

\* candidate i of cs is of a basic type, no U-turn, and on the name of the
\* current via-edge
BasicOnIncomingName(cs, i) ==
    /\ isBasic(cs[i].instruction.type)
    /\ cs[i].instruction.direction_modifier # "UTurn"
    /\ GetEdgeData(cs[i].eid).name_id = GetEdgeData(current_edge).name_id

\* C26 as stated: in the main pass of suppressTurns, when no candidate on the
\* incoming name is an obvious choice, every basic-type candidate that is no
\* U-turn and has the incoming name ends with type Continue, whatever the
\* name_id is
C26_AsStated ==
    pc = "turns" =>
        \A garbage \in BOOLEAN :
            LET cs == Optimized(garbage)
                out == suppressTurns(current_edge, cs)
            IN  MainPass(cs) /\ ObviousWithSameName(current_edge, cs) = 0 =>
                    \A i \in DOMAIN cs :
                        BasicOnIncomingName(cs, i) => out[i].instruction.type = "Continue"

\* C26, amended: the same holds when the incoming name_id is not 0; when it
\* is 0 (the anonymous name) no such candidate gets type Continue
C26_ContinueOnlyOnNamedRoads ==
    pc = "turns" =>
        \A garbage \in BOOLEAN :
            LET cs == Optimized(garbage)
                out == suppressTurns(current_edge, cs)
            IN  MainPass(cs) /\ ObviousWithSameName(current_edge, cs) = 0 =>
                    \A i \in DOMAIN cs :
                        BasicOnIncomingName(cs, i) =>
                            (out[i].instruction.type = "Continue"
                                <=> GetEdgeData(current_edge).name_id # 0)

\* the main pass has given Continue to a candidate on the incoming name
C26_Witness ==
    /\ pc = "turns"
    /\ GetEdgeData(current_edge).name_id # 0
    /\ \E garbage \in BOOLEAN :
          /\ turn_candidates = Processed(garbage)
          /\ MainPass(Optimized(garbage))
          /\ ObviousWithSameName(current_edge, Optimized(garbage)) = 0
          /\ \E i \in DOMAIN turn_candidates :
                /\ BasicOnIncomingName(Optimized(garbage), i)
                /\ turn_candidates[i].instruction.type = "Continue"

\* candidate i of the final list out is a valid turn, not back to the
\* from-node, onto an edge of another travel mode than the via-edge's, and
\* its type is Suppressed or NoTurn while it was another type in the list
\* found
SilencedModeChange(found, out, i) ==
    /\ out[i].valid
    /\ GetTarget(out[i].eid) # FromNode
    /\ GetEdgeData(out[i].eid).travel_mode # GetEdgeData(current_edge).travel_mode
    /\ out[i].instruction.type \in {"Suppressed", "NoTurn"}
    /\ found[i].instruction.type # out[i].instruction.type

\* C27 as stated: after optimizeCandidates and suppressTurns no valid
\* candidate that is no U-turn and whose travel mode differs from the
\* via-edge's has type Suppressed or NoTurn, unless it had that type when
\* getTurnCandidates returned it
C27_AsStated ==
    pc = "turns" =>
        \A garbage \in BOOLEAN :
            \A i \in DOMAIN Processed(garbage) :
                ~SilencedModeChange(Found(garbage).candidates, Processed(garbage), i)

\* C27, the part that holds: a change of travel mode is silenced only by
\* optimizeRamps (Suppressed, on the incoming name off a ramp) or by the
\* special case of three candidates (NoTurn, on the incoming name); the main
\* pass of suppressTurns silences none
C27_MainPassAnnouncesModeChanges ==
    pc = "turns" =>
        \A garbage \in BOOLEAN :
            \A i \in DOMAIN Processed(garbage) :
                SilencedModeChange(Found(garbage).candidates, Processed(garbage), i) =>
                    /\ GetEdgeData(Processed(garbage)[i].eid).name_id
                          = GetEdgeData(current_edge).name_id
                    /\ \/ /\ Optimized(garbage)[i].instruction.type = "Suppressed"
                          /\ isRampClass(GetEdgeData(current_edge).road_class)
                       \/ /\ SpecialCaseOfThree(Optimized(garbage)) = i
                          /\ Processed(garbage)[i].instruction = NO_TURN

\* C28 as stated: the buffer of OriginalEdgeData never holds more records
\* than the flush limit
C28_AsStated == Len(original_edge_data_vector) <= FlushLimit

\* C28, amended: the buffer never holds more than the flush limit plus one
\* records; it holds that many only between the append that takes it over
\* the limit and the flush that follows before the expanded edge is
\* appended, and that flush empties it into the stream
C28_AtMostLimitPlusOne ==
    /\ Len(original_edge_data_vector) <= FlushLimit + 1
    /\ pc # "emit" => Len(original_edge_data_vector) <= FlushLimit
    /\ pc \in {"turns", "emit", "GenerateEdgeExpandedEdges"} =>
          Len(edge_data_file.body) + Len(original_edge_data_vector)
              = original_edges_counter

\* the buffer holds one record more than the limit, just before its flush,
\* after an earlier flush
C28_Witness ==
    /\ pc = "emit"
    /\ Len(original_edge_data_vector) = FlushLimit + 1
    /\ Len(edge_data_file.body) > 0

\* a candidate list without the instructions
WithoutInstructions(cs) ==
    [i \in DOMAIN cs |-> [eid |-> cs[i].eid, valid |-> cs[i].valid,
                          angle |-> cs[i].angle, confidence |-> cs[i].confidence]]

\* C29: optimizeCandidates and suppressTurns change nothing but the
\* instructions: the list after each of them has the candidates of the list
\* getTurnCandidates returned, in the same order, with the same edge, valid
\* flag, angle and confidence; so the targets of the expanded edges of a
\* via-edge are the valid candidates of the list getTurnCandidates returned
C29_OnlyInstructionsChange ==
    /\ pc = "turns" /\ turn_cursor = 1 =>
          \A garbage \in BOOLEAN :
              LET found == Found(garbage).candidates
                  optimized == optimizeCandidates(current_edge, found)
                  final == suppressTurns(current_edge, optimized)
                  frame == WithoutInstructions(found)
              IN  /\ WithoutInstructions(optimized) = frame
                  /\ WithoutInstructions(final) = frame
                  /\ WithoutInstructions(turn_candidates) = frame
    /\ pc = "turns" /\ turn_cursor > Len(turn_candidates) =>
          ExpandedTargets(GetEdgeData(current_edge).edge_id)
              = ValidTargets(Found(FALSE).candidates)

\* a via-edge with four candidates, valid and invalid ones, whose
\* instructions both passes have changed, and whose edges are written
C29_Witness ==
    /\ pc = "turns"
    /\ turn_cursor > Len(turn_candidates)
    /\ Len(turn_candidates) >= 4
    /\ \E i, j \in DOMAIN turn_candidates :
          turn_candidates[i].valid /\ ~turn_candidates[j].valid
    /\ \E garbage \in BOOLEAN :
          /\ turn_candidates = Processed(garbage)
          /\ Optimized(garbage) # Found(garbage).candidates
          /\ Processed(garbage) # Optimized(garbage)

====
